---- MODULE Spec2Model ----
(***************************************************************************)
(* lowballm: the negotiation benchmark server.                             *)
(*                                                                         *)
(* The model follows server/server.js (the start / stop endpoints and the  *)
(* client-disconnect handler) and server/benchmark.js (runTournament and   *)
(* runMatch).  Node runs each callback to completion: the only place where *)
(* a tournament is suspended is the await of Agent.generateResponse, so an *)
(* action is one callback, from the event that resumes it to the next      *)
(* suspension.  The Agent class of server/server.js (generateResponse and  *)
(* its JSON parsing) is modelled on its own, on texts made of tokens.      *)
(***************************************************************************)
EXTENDS Integers, Sequences, FiniteSets, TLC

\* Bounds of the model.
MaxStarts == 2      \* /api/benchmark/start requests the server receives
MaxClock == 1       \* milliseconds by which the wall clock advances
MaxCalls == 2       \* generateResponse calls made on one Agent
MaxChars == 4       \* tokens of generated text one Agent receives in all

\* benchmark.js line 77
MaxTurns == 12

VARIABLES
    activeController,   \* server.js: 0 is null, k is the controller of request k
    aborted,            \* aborted[k]: controller k's signal.aborted
    closed,             \* requests whose 'close' event has fired
    T,                  \* T[k]: runTournament / runMatch frame of request k
    runs,               \* public/logs/run_<id>.json, by run id
    manifest,           \* public/logs/manifest.json
    clock,              \* Date.now()
    ev,                 \* the callback that ran last, with what it was given
    emitted,            \* lines the last callback sent through its logger
    writes,             \* files the last callback wrote
    atAbort,            \* history: the store when controller k was aborted
    agent,              \* one Agent object (server.js), used on its own
    cli                 \* the standalone CLI process and its one match

vars == <<activeController, aborted, closed, T, runs, manifest, clock, ev,
          emitted, writes, atAbort, agent, cli>>

Reqs == 1..MaxStarts

---------------------------------------------------------------------------
\* Values of the reply's offer field: a JSON number, null, or no field at all.
Null == [kind |-> "null", v |-> 0]
Undefined == [kind |-> "undefined", v |-> 0]
Num(n) == [kind |-> "number", v |-> n]

\* JavaScript truthiness of such a value (0, null and undefined are falsy).
Truthy(x) == x.kind = "number" /\ x.v # 0

\* benchmark.js lines 24-30; variance in percent.
SCENARIOS ==
    << [item |-> "Vintage Rolex Watch", value |-> 38000, variance |-> 10],
       [item |-> "Used 2020 Tesla Model 3", value |-> 25000, variance |-> 15],
       [item |-> "Premium Domain Name 'AI-Agent.com'", value |-> 50000, variance |-> 40],
       [item |-> "Enterprise SaaS Contract (Annual)", value |-> 120000, variance |-> 20],
       [item |-> "Rare Digital Art NFT", value |-> 15000, variance |-> 50] >>

\* Math.round(a / b) for a >= 0 and an even b > 0: the nearest integer,
\* halves upwards (written so that it stays within 32-bit integers).
RoundDiv(a, b) == (a + b \div 2) \div b

\* Mutant of Estimate: the noise is not centred, (x/100) * 2 instead of
\* (x/100) * 2 - 1.
Estimate_NotCentred(sc, x) ==
    RoundDiv(sc.value * (10000 + (2 * x) * sc.variance), 10000)

\* benchmark.js lines 51-52, with Math.random() = x / 100:
\* Math.round(trueValue * (1 + ((x/100) * 2 - 1) * variance)).
Estimate(sc, x) ==
    RoundDiv(sc.value * (10000 + (2 * x - 100) * sc.variance), 10000)

\* A score is the fraction num / den.
Zero == [num |-> 0, den |-> 1]

\* Mutant of DefaultScore: the penalty of -0.5 instead of the neutral score.
DefaultScore_Penalty == [num |-> -1, den |-> 2]

\* benchmark.js lines 156-157: the score of both sides unless a deal is scored.
DefaultScore == Zero

Other(role) == IF role = "seller" THEN "buyer" ELSE "seller"

\* Mutant of Swap: the speaker keeps the floor.
Swap_Stay(role) == role

\* benchmark.js line 149: the roles are exchanged after a turn.
Swap(role) == Other(role)

\* String values of a reply's fields, and the missing field.
Str(s) == [kind |-> "string", text |-> s]
NoText == [kind |-> "undefined", text |-> <<>>]

\* benchmark.js line 84: the message the first turn answers.
Opening == Str(<<"The negotiation has started. Please make your opening statement.">>)

\* The text the provider returned for a turn; runMatch never looks at it.
TextResponse == Str(<<"textResponse">>)

\* server.js lines 188-190: a message that is a non-empty string is put
\* into the Agent's history before the request.
PushUser(history, opponentMessage) ==
    IF opponentMessage.kind = "string" /\ opponentMessage.text # <<>>
    THEN Append(history, [role |-> "user", content |-> opponentMessage])
    ELSE history

\* server.js line 282: the provider's text is put into the Agent's history.
PushAssistant(history) ==
    Append(history, [role |-> "assistant", content |-> TextResponse])

\* Mutant of NextMessage: the next turn answers the same message again.
NextMessage_Kept(lastMessage, response) == lastMessage

\* benchmark.js line 148: the next turn answers the message of this reply.
NextMessage(lastMessage, response) == response.message

\* The n-th argument of a call; a parameter that gets no argument is
\* undefined.
Arg(args, n) == IF n <= Len(args) THEN args[n] ELSE Undefined

\* Mutant of ServerAgent: the estimate is taken from a sixth parameter.
ServerAgent_SixParameters(args) ==
    [name |-> Arg(args, 1), modelId |-> Arg(args, 2), role |-> Arg(args, 3),
     privateEstimate |-> Arg(args, 6)]

\* server.js lines 133-142: constructor(name, modelId, role, item,
\* privateEstimate); createSystemPrompt embeds this.privateEstimate.
ServerAgent(args) ==
    [name |-> Arg(args, 1), modelId |-> Arg(args, 2), role |-> Arg(args, 3),
     privateEstimate |-> Arg(args, 5)]

\* benchmark.js lines 60-89: runMatch's locals and the totalTokens, the
\* privateEstimate and the history of its two Agents. History fields: prevOffer is the offer field of the reply of the
\* previous turn, reported the output tokens the provider has reported for
\* the turns of each role.
NoMatch ==
    [runId |-> <<0, 0>>, seller |-> <<>>, buyer |-> <<>>,
     models |-> [seller |-> <<>>, buyer |-> <<>>], scenario |-> 0,
     sellerEst |-> 0, buyerEst |-> 0, turns |-> 0, dealReached |-> FALSE,
     dealPrice |-> Null, logs |-> <<>>, lastOffer |-> Null,
     lastOfferBy |-> "null", consecutiveNulls |-> 0,
     activeAgent |-> "seller", prevOffer |-> Null,
     lastMessage |-> Opening,
     privateEstimate |-> [seller |-> Undefined, buyer |-> Undefined],
     totalTokens |-> [seller |-> 0, buyer |-> 0],
     history |-> [seller |-> <<>>, buyer |-> <<>>],
     reported |-> [seller |-> 0, buyer |-> 0]]

\* runTournament's locals; pc is "idle" (no request yet), "await" (suspended
\* in generateResponse), "complete" (returned, sendComplete) or "error"
\* (threw, sendError). History fields: matches counts the runMatch calls made
\* so far, finished those that have returned or thrown, saved those that
\* have returned (they have written their result), errors those that
\* threw an error other than the cancellation, schedule lists the round,
\* seller and buyer of every runMatch call in the order made, and terminal
\* lists the 'complete' and 'error' events written to the request's stream.
IdleT ==
    [pc |-> "idle", rounds |-> 0, modelKeys |-> <<>>, modelMap |-> <<>>,
     tournamentId |-> "",
     r |-> 0, i |-> 0, j |-> 0, leg |-> 0, matches |-> 0, finished |-> 0,
     saved |-> 0, errors |-> 0, schedule |-> <<>>, terminal |-> <<>>,
     m |-> NoMatch]

\* What a callback works on: its tournament frame, the store, and what it
\* has logged and written so far. outcome tells what became of the runMatch
\* call that was suspended: "continues", "returned", "aborted" or "error".
Ctx(t, rs, mf) ==
    [t |-> t, runs |-> rs, manifest |-> mf, emitted |-> <<>>, writes |-> <<>>,
     outcome |-> "none"]

logger(c, line) == [c EXCEPT !.emitted = Append(@, line)]

EmptyStore == [runs |-> <<>>, manifest |-> <<>>]

\* fs.writeFileSync(run_<id>.json): creates or replaces the file.
PutRun(rs, id, rec) ==
    [x \in (DOMAIN rs) \cup {id} |-> IF x = id THEN rec ELSE rs[x]]

---------------------------------------------------------------------------
\* Model identifiers

\* A roster entry, a key and a model identifier are strings, kept as
\* sequences of pieces: <<"OPUS", " 4.5">> is 'OPUS 4.5', <<"GPT", "_5">> is
\* 'GPT_5'. The piece " 4.5" is the only place where the text ' 4.5' occurs.

\* benchmark.js lines 10-21: the own properties of MODELS.
MODELS ==
    { << <<"OPUS", "_4_5">>, <<"claude-opus-4-5-20251101">> >>,
      << <<"HAIKU", "_4_5">>, <<"claude-haiku-4-5-20251001">> >>,
      << <<"SONNET", "_4_5">>, <<"claude-sonnet-4-5-20250929">> >>,
      << <<"GEMINI_FLASH_PREVIEW">>, <<"gemini-3-flash-preview">> >>,
      << <<"GEMINI_2_5_PRO">>, <<"gemini-2.5-pro">> >>,
      << <<"GEMINI_2_5_FLASH">>, <<"gemini-2.5-flash">> >>,
      << <<"GPT", "_5_2">>, <<"gpt-5.2">> >>,
      << <<"GPT", "_5_1">>, <<"gpt-5.1">> >>,
      << <<"GPT", "_5">>, <<"gpt-5">> >>,
      << <<"GPT", "_5_MINI">>, <<"gpt-5-mini">> >> }

OwnKeys == {p[1] : p \in MODELS}

\* What MODELS holds as properties of Object.prototype, which every object
\* literal inherits: the function Object under the key 'constructor'.
Inherited == { << <<"constructor">>, <<"[Function: Object]">> >> }

\* MODELS[key]: an own property, an inherited one, or undefined (the empty
\* sequence here).
Property(key) ==
    IF \E p \in MODELS \cup Inherited : p[1] = key
    THEN (CHOOSE p \in MODELS \cup Inherited : p[1] = key)[2]
    ELSE <<>>

\* s without its n-th piece.
Without(s, n) == SubSeq(s, 1, n - 1) \o SubSeq(s, n + 1, Len(s))

\* benchmark.js line 256: m.replace(' 4.5', '') takes out the first ' 4.5'
\* of the string, wherever it is.
CleanKey(m) ==
    IF \E n \in DOMAIN m : m[n] = " 4.5"
    THEN Without(m, CHOOSE n \in DOMAIN m :
                        m[n] = " 4.5" /\ \A q \in 1..(n - 1) : m[q] # " 4.5")
    ELSE m

\* benchmark.js lines 257-258: the identifier an entry is mapped to.
Resolve(m) == IF Property(CleanKey(m)) # <<>> THEN Property(CleanKey(m)) ELSE m

\* benchmark.js lines 253-259: modelMap.
ModelMapOf(selectedModels) ==
    [m \in {selectedModels[n] : n \in DOMAIN selectedModels} |-> Resolve(m)]

\* Mutant of ObjectKeys: every roster entry is a participant.
ObjectKeys_All(selectedModels) == selectedModels

\* benchmark.js line 260: Object.keys(modelMap), the distinct entries in the
\* order in which they were first put in (no entry here is an array index).
ObjectKeys(selectedModels) ==
    LET firsts == {n \in DOMAIN selectedModels :
                      \A q \in 1..(n - 1) : selectedModels[q] # selectedModels[n]}
        nth[p \in 0..Len(selectedModels)] ==
            IF p = 0 THEN 0
            ELSE CHOOSE n \in firsts : n > nth[p - 1] /\
                                       \A q \in firsts : q > nth[p - 1] => n <= q
    IN  [p \in 1..Cardinality(firsts) |-> selectedModels[nth[p]]]

---------------------------------------------------------------------------
\* runMatch

\* Mutant of LoopGuard: the turn budget is tested with <= instead of <.
LoopGuard_OffByOne(m) == m.turns <= MaxTurns /\ ~m.dealReached

\* Mutant of LoopGuard: the turn budget is counted for each agent.
LoopGuard_PerAgent(m) == m.turns < 2 * MaxTurns /\ ~m.dealReached

\* benchmark.js line 91: the loop condition.
LoopGuard(m) == m.turns < MaxTurns /\ ~m.dealReached

\* benchmark.js lines 82/92 -> runTournament lines 292/310 -> server.js lines
\* 96-99: "Benchmark Aborted" is thrown, rethrown and answered with sendError.
ThrowAborted(c) ==
    [c EXCEPT !.t.pc = "error", !.t.m = NoMatch, !.t.finished = @ + 1,
              !.outcome = IF @ = "none" THEN "aborted" ELSE @]

\* benchmark.js lines 93-96: the turn is counted and generateResponse called
\* with lastMessage (server.js lines 186-190 run before the call suspends).
LoopEnter(c) ==
    [c EXCEPT !.t.pc = "await", !.t.m.turns = @ + 1,
              !.t.m.history[c.t.m.activeAgent] = PushUser(@, c.t.m.lastMessage),
              !.outcome = IF @ = "none" THEN "continues" ELSE @]

\* benchmark.js lines 38-96: runMatch up to its first generateResponse call.
\* rnd holds the Math.random() draws.
runMatchBegin(c, sig, runId, buyerConf, sellerConf, rnd) ==
    LET sc == SCENARIOS[rnd.scenario]
        sellerEst == Estimate(sc, rnd.xs)
        buyerEst == Estimate(sc, rnd.xb)
        seller == ServerAgent(<<sellerConf, c.t.modelMap[sellerConf], "seller",
                                sc.item, Num(sellerEst)>>)
        buyer == ServerAgent(<<buyerConf, c.t.modelMap[buyerConf], "buyer",
                               sc.item, Num(buyerEst)>>)
        m == [NoMatch EXCEPT !.runId = runId, !.seller = seller.name,
                             !.buyer = buyer.name,
                             !.models = [seller |-> seller.modelId,
                                         buyer |-> buyer.modelId],
                             !.scenario = rnd.scenario,
                             !.sellerEst = sellerEst, !.buyerEst = buyerEst,
                             !.privateEstimate =
                                 [seller |-> seller.privateEstimate,
                                  buyer |-> buyer.privateEstimate]]
        c1 == logger(logger(logger(logger(c, "Starting Match"), "Matchup"),
                            "Item"), "Estimates")
        c2 == [c1 EXCEPT !.t.m = m, !.t.matches = @ + 1,
                         !.t.schedule = Append(@, [round |-> c.t.r,
                                                   seller |-> sellerConf,
                                                   buyer |-> buyerConf])]
    IN  IF sig THEN ThrowAborted(c2) ELSE LoopEnter(c2)

\* Mutant of Unshift: the new entry is put at the end of the manifest.
Unshift_AtEnd(mf, entry) == Append(mf, entry)

\* Mutant of Unshift: the entry is put into the manifest twice.
Unshift_Twice(mf, entry) == <<entry, entry>> \o mf

\* benchmark.js line 208: manifest.unshift(entry).
Unshift(mf, entry) == <<entry>> \o mf

\* benchmark.js lines 156-231: scoring, the run record and the manifest.
EndMatch(c, now) ==
    LET m == c.t.m
        sc == SCENARIOS[m.scenario]
        scored == m.dealReached /\ Truthy(m.dealPrice)
        sellerScore == IF scored
                       THEN [num |-> m.dealPrice.v - m.sellerEst, den |-> m.sellerEst]
                       ELSE DefaultScore
        buyerScore == IF scored
                      THEN [num |-> m.buyerEst - m.dealPrice.v, den |-> m.buyerEst]
                      ELSE DefaultScore
        sellerRec == [name |-> m.seller, model |-> m.models.seller,
                      estimate |-> m.sellerEst, score |-> sellerScore]
        buyerRec == [name |-> m.buyer, model |-> m.models.buyer,
                     estimate |-> m.buyerEst, score |-> buyerScore]
        result == [id |-> m.runId, tournament |-> c.t.tournamentId, date |-> now,
                   item |-> sc.item, trueValue |-> sc.value,
                   seller |-> sellerRec @@ [thinkingTokens |-> m.totalTokens.seller],
                   buyer |-> buyerRec @@ [thinkingTokens |-> m.totalTokens.buyer],
                   dealReached |-> m.dealReached, dealPrice |-> m.dealPrice,
                   turns |-> m.turns, logs |-> m.logs]
        entry == [id |-> m.runId, tournament |-> c.t.tournamentId, date |-> now,
                  item |-> sc.item, trueValue |-> sc.value,
                  dealReached |-> m.dealReached, dealPrice |-> m.dealPrice,
                  seller |-> sellerRec, buyer |-> buyerRec]
        c1 == logger(c, IF scored THEN "DEAL REACHED" ELSE "NO DEAL REACHED.")
    IN  [c1 EXCEPT !.runs = PutRun(@, m.runId, result),
                   !.manifest = Unshift(@, entry),
                   !.writes = @ \o << <<"run", m.runId>>, <<"manifest", m.runId>> >>,
                   !.outcome = "returned",
                   !.t.finished = @ + 1,
                   !.t.saved = @ + 1,
                   !.t.m = NoMatch]

\* Mutant of Unwind: the failed match is scored and saved all the same.
Unwind_Saves(c) ==
    [EndMatch(c, 0) EXCEPT !.t.errors = @ + 1, !.outcome = "error"]

\* benchmark.js line 96 -> lines 291 / 309: the error thrown by
\* generateResponse leaves runMatch; nothing of lines 98-231 is run.
Unwind(c) ==
    [c EXCEPT !.t.m = NoMatch, !.t.finished = @ + 1, !.t.errors = @ + 1,
              !.outcome = "error"]

---------------------------------------------------------------------------
\* runTournament (indices are 1-based here, 0-based in the code)

\* Mutant of Complete: runTournament never returns after its last match.
Complete_Hangs(c) == [c EXCEPT !.t.pc = "hung", !.t.m = NoMatch]

\* benchmark.js line 316 -> server.js line 95.
Complete(c) ==
    [logger(c, "Tournament Complete.") EXCEPT !.t.pc = "complete", !.t.m = NoMatch]

\* Mutant of SellerOf: the second model of the pair sells first.
SellerOf_Swapped(leg, i, j) == IF leg = 1 THEN j ELSE i

\* benchmark.js lines 285-286 and 303-304: the roster index of the seller of
\* a leg (m1 in the first leg, m2 in the second) and of its buyer.
SellerOf(leg, i, j) == IF leg = 1 THEN i ELSE j
BuyerOf(leg, i, j) == IF leg = 1 THEN j ELSE i

\* Mutant of StartLeg: the two matches of a pair are started together, the
\* second without waiting for the first.
StartLeg_Both(c, sig, rnd, now, r, i, j, leg) ==
    LET c1 == [c EXCEPT !.t.r = r, !.t.i = i, !.t.j = j, !.t.leg = 2]
        c2 == runMatchBegin(c1, sig, <<now, 1>>, c.t.modelKeys[BuyerOf(1, i, j)],
                            c.t.modelKeys[SellerOf(1, i, j)], rnd)
    IN  runMatchBegin(c2, sig, <<now, 2>>, c.t.modelKeys[BuyerOf(2, i, j)],
                      c.t.modelKeys[SellerOf(2, i, j)], rnd)

\* benchmark.js lines 277-290 (leg 1) and 298-308 (leg 2).
StartLeg(c, sig, rnd, now, r, i, j, leg) ==
    LET c1 == [c EXCEPT !.t.r = r, !.t.i = i, !.t.j = j, !.t.leg = leg]
    IN  runMatchBegin(c1, sig, <<now, leg>>, c.t.modelKeys[BuyerOf(leg, i, j)],
                      c.t.modelKeys[SellerOf(leg, i, j)], rnd)

\* benchmark.js lines 275-276: one iteration of the inner loop. A break on
\* the aborted signal leaves the inner loop; every later iteration of the
\* outer loops breaks on the same signal before it does anything, so the
\* function falls through to line 316.
Pair(c, sig, rnd, now, r, i, j) ==
    IF sig THEN Complete(c) ELSE StartLeg(c, sig, rnd, now, r, i, j, 1)

\* Mutant of FirstOpponent: a model is paired with itself first.
FirstOpponent_Self(i) == i

\* benchmark.js line 275: the inner loop starts at j = i + 1.
FirstOpponent(i) == i + 1

\* Mutant of Rethrown: every error of a match is thrown on.
Rethrown_Always(message) == TRUE

\* benchmark.js lines 292 and 310: only the cancellation is thrown on.
Rethrown(message) == message = "Benchmark Aborted"

\* benchmark.js lines 271-274: one iteration of the round loop.
Round(c, sig, rnd, now, r) ==
    IF r > c.t.rounds \/ sig
    THEN Complete(c)
    ELSE IF FirstOpponent(1) <= Len(c.t.modelKeys)
         THEN Pair(logger(c, "ROUND"), sig, rnd, now, r, 1, FirstOpponent(1))
         ELSE Complete([c EXCEPT !.emitted =
                           @ \o [x \in 1..(c.t.rounds - r + 1) |-> "ROUND"]])

\* benchmark.js lines 291-296 and 309-314: runMatch has returned, or has
\* thrown an error that was caught; the loops go on.
Continue(c, sig, rnd, now) ==
    LET n == Len(c.t.modelKeys)
        r == c.t.r
        i == c.t.i
        j == c.t.j
    IN  IF c.t.leg = 1
        THEN IF sig THEN Complete(c) ELSE StartLeg(c, sig, rnd, now, r, i, j, 2)
        ELSE IF j + 1 <= n THEN Pair(c, sig, rnd, now, r, i, j + 1)
             ELSE IF FirstOpponent(i + 1) <= n
                  THEN Pair(c, sig, rnd, now, r, i + 1, FirstOpponent(i + 1))
             ELSE Round(c, sig, rnd, now, r + 1)

\* The same, with the state the match has left behind worked out once.
AfterMatch(c, sig, rnd, now) ==
    CHOOSE after \in {Continue(left, sig, rnd, now) : left \in {c}} : TRUE

---------------------------------------------------------------------------
\* runMatch, resumed

\* Mutant of TurnCheck: the signal is not looked at before a turn.
TurnCheck_Skipped(sig) == FALSE

\* benchmark.js line 92: options.signal.aborted, tested before every turn.
TurnCheck(sig) == sig

\* benchmark.js lines 91-96 and 152-231: the loop test after a turn.
LoopHead(c, sig, rnd, now) ==
    IF LoopGuard(c.t.m)
    THEN IF TurnCheck(sig) THEN ThrowAborted(c) ELSE LoopEnter(c)
    ELSE AfterMatch(EndMatch(c, now), sig, rnd, now)

\* server.js lines 144-149 (called from benchmark.js lines 144-146): the
\* output tokens of a turn are added to the Agent's total; usage is the
\* number of output tokens the provider reported, 0 when it reported none.
TrackTokens(total, usage) == total + usage

\* benchmark.js lines 96-150: one turn, from the reply to the next loop test.
\* The log entry keeps the turn, the role and the deal flag of the reply.
ProcessTurn(c, response, sig, rnd, now) ==
    LET m == c.t.m
        role == m.activeAgent
        c1 == logger(c, "turn")
        valid == m.lastOffer # Null /\ m.lastOfferBy # role
        accepted == response.deal /\ valid /\ response.offer = m.lastOffer
        c2 == IF response.deal /\ ~accepted
              THEN logger(c1, IF valid THEN "Rejected deal: mismatch"
                                       ELSE "Rejected deal: no valid offer")
              ELSE c1
        hasOffer == response.offer # Null
        nulls == IF accepted \/ hasOffer
                 THEN (IF accepted THEN m.consecutiveNulls ELSE 0)
                 ELSE m.consecutiveNulls + 1
        silence == ~accepted /\ ~hasOffer /\ nulls >= 2
        m1 == [m EXCEPT !.dealReached = accepted,
                        !.dealPrice = IF accepted THEN response.offer ELSE @,
                        !.lastOffer = IF ~accepted /\ hasOffer THEN response.offer ELSE @,
                        !.lastOfferBy = IF ~accepted /\ hasOffer THEN role ELSE @,
                        !.consecutiveNulls = nulls,
                        !.prevOffer = response.offer,
                        !.history[role] = PushAssistant(@),
                        !.reported[role] = @ + response.usage]
        m2 == [m1 EXCEPT !.logs = Append(@, [turn |-> m.turns, role |-> role,
                                             deal |-> accepted]),
                         !.totalTokens[role] = TrackTokens(@, response.usage),
                         !.lastMessage = NextMessage(m.lastMessage, response),
                         !.activeAgent = Swap(role)]
    IN  IF silence
        THEN AfterMatch(EndMatch(logger([c2 EXCEPT !.t.m = m1], "Negotiation ended"),
                                 now), sig, rnd, now)
        ELSE LoopHead([c2 EXCEPT !.t.m = m2], sig, rnd, now)

---------------------------------------------------------------------------
\* Agent (server.js lines 132-300)

\* A text is a sequence of tokens. "{" and "}" are braces, "w" is a word of
\* prose, "n" is a JSON value that is not an object (42), "F" is the member
\* list "thought":"t","message":"m","offer":5,"deal":false and "P" is the
\* member list "message":"m".
TextTokens == {"{", "}", "w", "n", "F", "P"}

\* What the members of a parsed value give for the four fields of a reply.
FullFields ==
    [thought |-> Str(<<"t">>), message |-> Str(<<"m">>), offer |-> Num(5),
     deal |-> "false"]
PartialFields ==
    [thought |-> NoText, message |-> Str(<<"m">>), offer |-> Undefined,
     deal |-> "undefined"]
NoFields ==
    [thought |-> NoText, message |-> NoText, offer |-> Undefined,
     deal |-> "undefined"]

\* JSON.parse: the text is one JSON value or the call throws.
JSONParse(s) ==
    IF s = <<"{", "F", "}">> THEN [ok |-> TRUE, data |-> FullFields]
    ELSE IF s = <<"{", "P", "}">> THEN [ok |-> TRUE, data |-> PartialFields]
    ELSE IF s = <<"{", "}">> \/ s = <<"n">> THEN [ok |-> TRUE, data |-> NoFields]
    ELSE [ok |-> FALSE, data |-> NoFields]

\* server.js line 265: textResponse.match(/\{[\s\S]*\}/), from the first "{"
\* to the last "}" after it; the empty sequence stands for no match.
JsonMatch(s) ==
    LET opens == {n \in DOMAIN s : s[n] = "{"}
        closes == {n \in DOMAIN s : s[n] = "}"}
    IN  IF opens = {} \/ closes = {} THEN <<>>
        ELSE LET a == CHOOSE n \in opens : \A q \in opens : n <= q
                 b == CHOOSE n \in closes : \A q \in closes : n >= q
             IN  IF a < b THEN SubSeq(s, a, b) ELSE <<>>

\* server.js lines 273-278: the reply that stands in for unparsable text.
Fallback(text) ==
    [thought |-> Str(<<"Failed to parse JSON output">>), message |-> Str(text),
     offer |-> Null, deal |-> "false"]

\* server.js lines 262-279: the JSON parsing logic.
ParseReply(text) ==
    LET found == JsonMatch(text)
        parsed == JSONParse(IF found # <<>> THEN found ELSE text)
    IN  IF parsed.ok THEN parsed.data ELSE Fallback(text)

NoReply ==
    [status |-> "none", thought |-> NoText, message |-> NoText,
     offer |-> Undefined, deal |-> "undefined", usage |-> 0]

\* server.js lines 133-142: a new Agent. calls, chars, text and reply are
\* history fields: the calls made, the tokens of text received, the text of
\* the last call and what the last call returned.
NewAgent ==
    [pc |-> "idle", history |-> <<>>, lastUsage |-> 0, calls |-> 0,
     chars |-> 0, text |-> <<>>, reply |-> NoReply]

\* server.js lines 186-190: generateResponse up to its request to the
\* provider; an empty opponent message is not put into the history.
AgentReceive(a, opponentMessage) ==
    [a EXCEPT !.pc = "api", !.calls = @ + 1,
              !.history = IF opponentMessage # <<>>
                          THEN Append(@, [role |-> "user", content |-> opponentMessage])
                          ELSE @]

\* server.js lines 212-294: the provider has answered with text and usage.
AgentFinish(a, text, usage) ==
    LET data == ParseReply(text)
    IN  [a EXCEPT !.pc = "idle", !.lastUsage = usage, !.text = text,
                  !.chars = @ + Len(text),
                  !.history = Append(@, [role |-> "assistant", content |-> text]),
                  !.reply = [status |-> "returned", thought |-> data.thought,
                             message |-> data.message, offer |-> data.offer,
                             deal |-> data.deal, usage |-> usage]]

\* server.js lines 295-298: the provider's error is logged and thrown on.
AgentFail(a) ==
    [a EXCEPT !.pc = "idle", !.text = <<>>, !.reply = [NoReply EXCEPT !.status = "threw"]]

---------------------------------------------------------------------------
\* The standalone CLI (benchmark-cli): one process runs one match

\* JavaScript's == on the values of an offer field: null and undefined are
\* equal to each other and to nothing else.
LooseEq(a, b) ==
    \/ a = b
    \/ a.kind \in {"null", "undefined"} /\ b.kind \in {"null", "undefined"}

\* benchmark-cli/agents.js lines 17-26: constructor(name, modelId, role,
\* item, trueValue, privateEstimate); createSystemPrompt embeds
\* this.privateEstimate.
CliAgent(args) ==
    [name |-> Arg(args, 1), modelId |-> Arg(args, 2), role |-> Arg(args, 3),
     trueValue |-> Arg(args, 5), privateEstimate |-> Arg(args, 6)]

\* CLI lines 10-14: the table has the keys OPUS_4_5, HAIKU_4_5 and
\* SONNET_4_5; MODELS.OPUS and MODELS.HAIKU (lines 39 and 46) are undefined.
CliModels(key) ==
    IF key = "OPUS_4_5" THEN Str(<<"claude-opus-4-5-20251101">>)
    ELSE IF key = "HAIKU_4_5" THEN Str(<<"claude-haiku-4-5-20251001">>)
    ELSE IF key = "SONNET_4_5" THEN Str(<<"claude-sonnet-4-5-20250929">>)
    ELSE NoText

\* CLI lines 20-24, with Math.random() = x / 100:
\* Math.round(38000 * (1 + ((x/100) * 0.2 - 0.1))).
CliItem == "Vintage Rolex Watch"
CliTrueValue == 38000
CliEstimate(x) == RoundDiv(CliTrueValue * (10000 + 20 * x - 1000), 10000)

\* Mutant of CliDefaultScore: the neutral score of the server.
CliDefaultScore_Neutral == Zero

\* CLI lines 111-112: the score of both sides unless a deal is scored.
CliDefaultScore == [num |-> -1, den |-> 2]

\* CLI lines 52-65: the locals of the CLI's runMatch and the privateEstimate
\* of its two Agents; lastOfferBy is a history field, the role that made the
\* pending offer.
IdleCli ==
    [pc |-> "idle", runId |-> <<0, 0>>, seller |-> <<>>, buyer |-> <<>>,
     models |-> [seller |-> Undefined, buyer |-> Undefined],
     sellerEst |-> 0, buyerEst |-> 0,
     privateEstimate |-> [seller |-> Undefined, buyer |-> Undefined],
     turns |-> 0, dealReached |-> FALSE, dealPrice |-> Null, logs |-> <<>>,
     lastMessage |-> Opening, lastOffer |-> Null, lastOfferBy |-> "null",
     activeAgent |-> "seller"]

\* CLI line 69: the loop condition.
CliLoopGuard(m) == m.turns < MaxTurns /\ ~m.dealReached

\* CLI lines 70-71: the turn is counted and generateResponse called.
CliLoopEnter(m) == [m EXCEPT !.pc = "await", !.turns = @ + 1]

\* CLI lines 16-71: runMatch up to its first generateResponse call.
CliBegin(runId, rnd) ==
    LET sellerEst == CliEstimate(rnd.xs)
        buyerEst == CliEstimate(rnd.xb)
        seller == CliAgent(<< <<"Opus 4.5">>, CliModels("OPUS"), "seller", CliItem,
                              Num(sellerEst)>>)
        buyer == CliAgent(<< <<"Haiku 4.5">>, CliModels("HAIKU"), "buyer", CliItem,
                             Num(buyerEst)>>)
    IN  CliLoopEnter([IdleCli EXCEPT !.runId = runId, !.seller = seller.name,
                                     !.buyer = buyer.name,
                                     !.models = [seller |-> seller.modelId,
                                                 buyer |-> buyer.modelId],
                                     !.sellerEst = sellerEst, !.buyerEst = buyerEst,
                                     !.privateEstimate =
                                         [seller |-> seller.privateEstimate,
                                          buyer |-> buyer.privateEstimate]])

\* CLI lines 71-108: one turn, up to the next loop test.
CliTurn(m, response) ==
    LET role == m.activeAgent
        accepted == /\ response.deal
                    /\ m.lastOffer # Null
                    /\ LooseEq(response.offer, m.lastOffer)
        taken == ~response.deal /\ response.offer # Null
    IN  [m EXCEPT !.dealReached = accepted,
                  !.dealPrice = IF accepted THEN response.offer ELSE @,
                  !.lastOffer = IF taken THEN response.offer ELSE @,
                  !.lastOfferBy = IF taken THEN role ELSE @,
                  !.logs = Append(@, [turn |-> m.turns, role |-> role,
                                      deal |-> accepted]),
                  !.lastMessage = response.message,
                  !.activeAgent = Other(role)]

\* CLI lines 110-145: scoring and the run record.
CliResult(m, now) ==
    LET scored == m.dealReached /\ Truthy(m.dealPrice)
        sellerScore == IF scored
                       THEN [num |-> m.dealPrice.v - m.sellerEst, den |-> m.sellerEst]
                       ELSE CliDefaultScore
        buyerScore == IF scored
                      THEN [num |-> m.buyerEst - m.dealPrice.v, den |-> m.buyerEst]
                      ELSE CliDefaultScore
    IN  [id |-> m.runId, date |-> now, item |-> CliItem, trueValue |-> CliTrueValue,
         seller |-> [name |-> m.seller, model |-> m.models.seller,
                     estimate |-> m.sellerEst, score |-> sellerScore],
         buyer |-> [name |-> m.buyer, model |-> m.models.buyer,
                    estimate |-> m.buyerEst, score |-> buyerScore],
         dealReached |-> m.dealReached, dealPrice |-> m.dealPrice,
         turns |-> m.turns, logs |-> m.logs]

\* CLI lines 162-181: the manifest entry, the run record without its turns
\* and log.
CliEntry(result) ==
    [id |-> result.id, date |-> result.date, item |-> result.item,
     trueValue |-> result.trueValue, dealReached |-> result.dealReached,
     dealPrice |-> result.dealPrice, seller |-> result.seller,
     buyer |-> result.buyer]

---------------------------------------------------------------------------
\* Actions

Init ==
    /\ activeController = 0
    /\ aborted = [k \in Reqs |-> FALSE]
    /\ closed = {}
    /\ T = [k \in Reqs |-> IdleT]
    /\ runs = <<>>
    /\ manifest = <<>>
    /\ clock = 0
    /\ ev = [kind |-> "init"]
    /\ emitted = <<>>
    /\ writes = <<>>
    /\ atAbort = [k \in Reqs |-> EmptyStore]
    /\ agent = NewAgent
    /\ cli = IdleCli

\* controller.abort() on the active controller, if there is one.
Abort(ac) ==
    /\ aborted' = [q \in Reqs |-> IF q = ac THEN TRUE ELSE aborted[q]]
    /\ atAbort' = [q \in Reqs |-> IF q = ac /\ ~aborted[q]
                                  THEN [runs |-> runs, manifest |-> manifest]
                                  ELSE atAbort[q]]

\* Mutant of TerminalEvents: a failure is answered with no event.
TerminalEvents_ErrorDropped(pc) == IF pc = "complete" THEN <<"complete">> ELSE <<>>

\* server.js lines 91-99: sendComplete once runTournament has returned,
\* sendError once it has thrown, nothing while it is suspended.
TerminalEvents(pc) ==
    IF pc = "complete" THEN <<"complete">>
    ELSE IF pc = "error" THEN <<"error">>
    ELSE <<>>

Settle(t) == [t EXCEPT !.terminal = @ \o TerminalEvents(t.pc)]

Commit(k, c) ==
    /\ T' = [T EXCEPT ![k] = Settle(c.t)]
    /\ runs' = c.runs
    /\ manifest' = c.manifest
    /\ emitted' = c.emitted
    /\ writes' = c.writes

\* server.js lines 34-101 with runTournament lines 234-270: a start request.
Start(k, rosters, roundsSet, names, rnds) ==
    /\ T[k].pc = "idle"
    /\ \A q \in 1..(k - 1) : T[q].pc # "idle"
    /\ \E models \in rosters, rounds \in roundsSet, name \in names, rnd \in rnds :
         LET t0 == [IdleT EXCEPT !.rounds = rounds,
                                 !.modelMap = ModelMapOf(models),
                                 !.modelKeys = ObjectKeys(models),
                                 !.tournamentId = IF name # "" THEN name ELSE rnd.name]
             c0 == logger(logger(Ctx(t0, runs, manifest), "Initializing Benchmark"),
                          "Starting Tournament")
         IN \E c \in {Round(c0, FALSE, rnd, clock, 1)} :
             /\ Commit(k, c)
             /\ ev' = [kind |-> "start", k |-> k, pre |-> T[k], roster |-> models,
                       outcome |-> c.outcome]
    /\ Abort(activeController)
    /\ activeController' = k
    /\ UNCHANGED <<closed, clock, agent, cli>>

\* Mutant of StopStatus: a stop request with nothing to stop is an error.
StopStatus_Error(ac) == IF ac # 0 THEN "stopped" ELSE "error"

\* server.js lines 27 and 29: the answer to a stop request.
StopStatus(ac) == IF ac # 0 THEN "stopped" ELSE "no_active_benchmark"

\* server.js lines 22-31: a stop request.
Stop ==
    /\ IF activeController # 0
       THEN /\ Abort(activeController)
            /\ activeController' = 0
       ELSE UNCHANGED <<aborted, atAbort, activeController>>
    /\ ev' = [kind |-> "stop", status |-> StopStatus(activeController)]
    /\ emitted' = <<>>
    /\ writes' = <<>>
    /\ UNCHANGED <<closed, T, runs, manifest, clock, agent, cli>>

\* server.js lines 77-87: the 'close' event of request k.
Close(k) ==
    /\ T[k].pc # "idle"
    /\ k \notin closed
    /\ closed' = closed \cup {k}
    /\ activeController' = IF activeController = k THEN 0 ELSE activeController
    /\ ev' = [kind |-> "close", k |-> k]
    /\ emitted' = <<>>
    /\ writes' = <<>>
    /\ UNCHANGED <<aborted, atAbort, T, runs, manifest, clock, agent, cli>>

\* benchmark.js line 96: generateResponse resolves with a reply.
GenReturns(k, replies, rnds) ==
    /\ T[k].pc = "await"
    /\ \E response \in replies, rnd \in rnds :
         \E c \in {ProcessTurn(Ctx(T[k], runs, manifest), response, aborted[k],
                              rnd, clock)} :
             /\ Commit(k, c)
             /\ ev' = [kind |-> "reply", k |-> k, pre |-> T[k],
                       response |-> response, outcome |-> c.outcome]
    /\ UNCHANGED <<activeController, aborted, atAbort, closed, clock, agent, cli>>

\* benchmark.js line 96: generateResponse rejects (server.js lines 295-298 in
\* the Agent); runTournament catches the error at lines 291-294 / 309-312.
GenThrows(k, rnds) ==
    /\ T[k].pc = "await"
    /\ \E rnd \in rnds :
         LET c0 == Unwind(Ctx(T[k], runs, manifest))
         IN \E c \in {IF Rethrown("API Error")
                  THEN [c0 EXCEPT !.t.pc = "error"]
                  ELSE AfterMatch(c0, aborted[k], rnd, clock)} :
             /\ Commit(k, c)
             /\ ev' = [kind |-> "throw", k |-> k, pre |-> T[k], outcome |-> c.outcome]
    /\ UNCHANGED <<activeController, aborted, atAbort, closed, clock, agent, cli>>

\* server.js line 186: generateResponse is called on the Agent.
AgentCall(messages) ==
    /\ agent.pc = "idle"
    /\ agent.calls < MaxCalls
    /\ \E opponentMessage \in messages :
          agent' = AgentReceive(agent, opponentMessage)
    /\ UNCHANGED <<activeController, aborted, atAbort, closed, T, runs,
                   manifest, clock, ev, emitted, writes, cli>>

\* server.js lines 202-257: the provider answers the request.
AgentApiReturns(texts, usages) ==
    /\ agent.pc = "api"
    /\ \E text \in texts, usage \in usages :
          /\ agent.chars + Len(text) <= MaxChars
          /\ agent' = AgentFinish(agent, text, usage)
    /\ UNCHANGED <<activeController, aborted, atAbort, closed, T, runs,
                   manifest, clock, ev, emitted, writes, cli>>

\* server.js lines 202-257 and 295-298: the provider's request fails.
AgentApiThrows ==
    /\ agent.pc = "api"
    /\ agent' = AgentFail(agent)
    /\ UNCHANGED <<activeController, aborted, atAbort, closed, T, runs,
                   manifest, clock, ev, emitted, writes, cli>>

\* The wall clock advances.
Tick ==
    /\ clock < MaxClock
    /\ clock' = clock + 1
    /\ UNCHANGED <<activeController, aborted, atAbort, closed, T, runs,
                   manifest, ev, emitted, writes, agent, cli>>

\* CLI lines 188-189 and 16-71: the process starts its match.
CliStart(rnds) ==
    /\ cli.pc = "idle"
    /\ \E rnd \in rnds : cli' = CliBegin(<<clock, 0>>, rnd)
    /\ UNCHANGED <<activeController, aborted, atAbort, closed, T, runs,
                   manifest, clock, ev, emitted, writes, agent>>

\* CLI line 71: generateResponse resolves with a reply; when the loop ends
\* the match is scored and saved (lines 110-185).
CliReturns(replies) ==
    /\ cli.pc = "await"
    /\ \E response \in replies :
         \E m \in {CliTurn(cli, response)} :
             IF CliLoopGuard(m)
             THEN /\ cli' = CliLoopEnter(m)
                  /\ UNCHANGED <<runs, manifest>>
             ELSE /\ cli' = [m EXCEPT !.pc = "done"]
                  /\ runs' = PutRun(runs, m.runId, CliResult(m, clock))
                  /\ manifest' = Unshift(manifest, CliEntry(CliResult(m, clock)))
    /\ UNCHANGED <<activeController, aborted, atAbort, closed, T, clock, ev,
                   emitted, writes, agent>>

\* CLI lines 71 and 189: generateResponse rejects, runMatch(runId) rejects
\* and the error goes to console.error.
CliThrows ==
    /\ cli.pc = "await"
    /\ cli' = [cli EXCEPT !.pc = "error"]
    /\ UNCHANGED <<activeController, aborted, atAbort, closed, T, runs,
                   manifest, clock, ev, emitted, writes, agent>>

---------------------------------------------------------------------------
\* Inputs

Roster2 == << <<"OPUS", " 4.5">>, <<"HAIKU", " 4.5">> >>

\* Replies of the server specification: a reply without an offer.
Silent == [offer |-> Null, deal |-> FALSE, usage |-> 0, message |-> Str(<<"w">>)]
CoarseRnd == {[scenario |-> 1, xs |-> 0, xb |-> 50, name |-> "Silent Badger 7"]}

\* Replies of the match specification.
Prices == {0, 34200}
Offers == {Null, Undefined} \cup {Num(p) : p \in Prices}
Replies == [offer : Offers, deal : BOOLEAN, usage : {0}, message : {Str(<<"w">>)}]
MatchRnd == {[scenario |-> 1, xs |-> x, xb |-> 50, name |-> "Silent Badger 7"] : x \in {0, 50}}

\* The server: start, stop and disconnect events around tournaments whose
\* agents stay silent or fail.
ServerStart == \E k \in Reqs : Start(k, {Roster2}, {1}, {""}, CoarseRnd)
ServerClose == \E k \in Reqs : Close(k)
ServerReply == \E k \in Reqs : GenReturns(k, {Silent}, CoarseRnd)
ServerThrow == \E k \in Reqs : GenThrows(k, CoarseRnd)

Next == ServerStart \/ Stop \/ ServerClose \/ ServerReply \/ ServerThrow \/ Tick

Spec == Init /\ [][Next]_vars

\* The server when every generation call it awaits is answered in the end,
\* with a reply or with an error (the clock plays no part in this).
NextAnswered == ServerStart \/ Stop \/ ServerClose \/ ServerReply \/ ServerThrow

SpecAnswered ==
    /\ Init /\ [][NextAnswered]_vars
    /\ \A k \in Reqs :
          WF_vars(GenReturns(k, {Silent}, CoarseRnd) \/ GenThrows(k, CoarseRnd))

\* One tournament of two models, with every reply the agents can give.
MatchStart == Start(1, {Roster2}, {1}, {""}, MatchRnd)
MatchReply == GenReturns(1, Replies, MatchRnd)
MatchThrow == GenThrows(1, MatchRnd)

NextMatch == MatchStart \/ MatchReply \/ MatchThrow

SpecMatch == Init /\ [][NextMatch]_vars

\* One tournament of two models whose agents stay silent, with and without a
\* report of the tokens used, or make an offer.
TokenReplies ==
    {[Silent EXCEPT !.usage = u] : u \in {0, 7}}
        \cup {[Silent EXCEPT !.offer = Num(34200), !.usage = 7]}

TokenStart == Start(1, {Roster2}, {1}, {""}, CoarseRnd)
TokenReply == GenReturns(1, TokenReplies, CoarseRnd)
TokenThrow == GenThrows(1, CoarseRnd)

NextToken == TokenStart \/ TokenReply \/ TokenThrow

SpecToken == Init /\ [][NextToken]_vars

\* One tournament of two models whose agents make offers and say something,
\* say nothing or leave the message out of the reply.
Messages == {Str(<<"w">>), Str(<<>>), NoText}
TalkReplies ==
    [offer : {Num(34200)}, deal : {FALSE}, usage : {0}, message : Messages]

TalkStart == Start(1, {Roster2}, {1}, {""}, CoarseRnd)
TalkReply == GenReturns(1, TalkReplies, CoarseRnd)
TalkThrow == GenThrows(1, CoarseRnd)

NextTalk == TalkStart \/ TalkReply \/ TalkThrow

SpecTalk == Init /\ [][NextTalk]_vars

\* The CLI's match with every reply its agents can give, beside one server
\* tournament of two models that stay silent or fail.
CliRnd == {[xs |-> x, xb |-> 50] : x \in {0, 50}}
CliReplies ==
    [offer : {Null, Undefined, Num(34200)}, deal : BOOLEAN, usage : {0},
     message : {Str(<<"w">>)}]

CliMatchStart == CliStart(CliRnd)
CliMatchReply == CliReturns(CliReplies)
CliServerStart == Start(1, {Roster2}, {1}, {""}, CoarseRnd)
CliServerReply == GenReturns(1, {Silent}, CoarseRnd)
CliServerThrow == GenThrows(1, CoarseRnd)

NextCli ==
    \/ CliMatchStart \/ CliMatchReply \/ CliThrows
    \/ CliServerStart \/ CliServerReply \/ CliServerThrow

SpecCli == Init /\ [][NextCli]_vars

\* One tournament of two models, never cancelled, in which every generation
\* call returns in the end: with an offer or without, with a deal claim or
\* without.
FairReplies ==
    [offer : {Null, Num(34200)}, deal : BOOLEAN, usage : {0},
     message : {Str(<<"w">>)}]

FairStart == Start(1, {Roster2}, {1}, {""}, CoarseRnd)
FairReply == GenReturns(1, FairReplies, CoarseRnd)

NextFair == FairStart \/ FairReply

SpecFair == Init /\ [][NextFair]_vars /\ WF_vars(FairReply)

\* One tournament whose roster has one or two entries, equal or not: keys of
\* MODELS with and without ' 4.5' after, inside or before them, names that
\* are no keys, and a name that MODELS inherits. The agents stay silent or
\* fail.
Entries ==
    { <<"GPT", "_5">>, <<"GPT", "_5", " 4.5">>, <<"GPT", " 4.5", "_5">>,
      <<"OPUS", " 4.5">>, <<"my-model">>, <<"constructor">> }
Rosters == UNION {[1..n -> Entries] : n \in 1..2}

RosterStart == Start(1, Rosters, {1}, {""}, CoarseRnd)
RosterReply == GenReturns(1, {Silent}, CoarseRnd)
RosterThrow == GenThrows(1, CoarseRnd)

NextRoster == RosterStart \/ RosterReply \/ RosterThrow

SpecRoster == Init /\ [][NextRoster]_vars

\* One tournament that is never cancelled: one, two or three models, one or two
\* rounds, agents that stay silent or fail.
Roster1 == << <<"OPUS", " 4.5">> >>
Roster3 == << <<"OPUS", " 4.5">>, <<"HAIKU", " 4.5">>, <<"SONNET", " 4.5">> >>

SchedStart == Start(1, {Roster1, Roster2, Roster3}, {1, 2}, {""}, CoarseRnd)
SchedReply == GenReturns(1, {Silent}, CoarseRnd)
SchedThrow == GenThrows(1, CoarseRnd)

NextSched == SchedStart \/ SchedReply \/ SchedThrow

SpecSched == Init /\ [][NextSched]_vars

\* One tournament of two silent models with every scenario of the catalog
\* and draws of Math.random() from 0 to 0.99 for the two estimates.
RandomDraws == {0, 50, 99}
WideRnd ==
    {[scenario |-> sc, xs |-> x, xb |-> y, name |-> "Silent Badger 7"] :
        sc \in DOMAIN SCENARIOS, x \in RandomDraws, y \in RandomDraws}

DrawStart == Start(1, {Roster2}, {1}, {""}, WideRnd)
DrawReply == GenReturns(1, {Silent}, WideRnd)
DrawThrow == GenThrows(1, WideRnd)

NextDraw == DrawStart \/ DrawReply \/ DrawThrow

SpecDraw == Init /\ [][NextDraw]_vars

\* One Agent, with every text of up to MaxChars tokens the provider can
\* answer; the opponent's message is empty or a word.
Texts == UNION {[1..n -> TextTokens] : n \in 0..MaxChars}
OpponentMessages == {<<>>, <<"w">>}
Usages == {0, 7}

AgentCalled == AgentCall(OpponentMessages)
AgentReplied == AgentApiReturns(Texts, Usages)

NextAgent == AgentCalled \/ AgentReplied \/ AgentApiThrows

SpecAgent == Init /\ [][NextAgent]_vars

---------------------------------------------------------------------------
\* Helpers of the properties

Range(s) == {s[n] : n \in DOMAIN s}

\* The last callback resumed a match with a reply.
Replied == ev.kind = "reply"

\* The run record written by the match the last callback resumed.
LastRecord == runs[ev.pre.m.runId]

\* The last callback ended its match with a deal.
DealRecorded == ev.outcome = "returned" /\ LastRecord.dealReached

RejectionLogged ==
    \E line \in Range(emitted) :
        line \in {"Rejected deal: mismatch", "Rejected deal: no valid offer"}

OutcomeLogged ==
    \E line \in Range(emitted) : line \in {"DEAL REACHED", "NO DEAL REACHED."}

\* A reply carries no offer when its offer field is null or missing.
AbsentOffer(o) == o.kind # "number"

Running(k) == T[k].pc = "await"

---------------------------------------------------------------------------
\* Properties under SpecMatch

\* C1: a reply with deal=true ends the match as DEAL if and only if a
\* pending offer exists (a price is on the table), it was made by the other
\* role and the reply's offer equals it; otherwise the claim is rejected: a
\* "[System] Rejected deal" line is logged, the turn is logged with
\* deal=false, no deal is recorded and the rejection does not end the match
\* (it goes on unless the silence rule or the turn cap ends it without a deal).
C1_Honoured ==
    /\ ev.pre.m.lastOffer.kind = "number"
    /\ ev.pre.m.lastOfferBy # ev.pre.m.activeAgent
    /\ ev.response.offer = ev.pre.m.lastOffer

C1_DealClaimHonouredIff ==
    (Replied /\ ev.response.deal) =>
        /\ DealRecorded <=> C1_Honoured
        /\ ~C1_Honoured =>
              /\ RejectionLogged
              /\ ev.outcome \in {"continues", "returned"}
              /\ ev.outcome = "continues" =>
                    ~T[ev.k].m.logs[Len(T[ev.k].m.logs)].deal

\* C7: in every match the turn count never exceeds maxTurns (12), in the
\* running match and in every run record.
C7_TurnsBounded ==
    /\ \A k \in Reqs : T[k].m.turns <= MaxTurns
    /\ \A id \in DOMAIN runs : runs[id].turns <= MaxTurns

\* C7 witness: a match has used its whole turn budget and was recorded.
C7_Witness == \E id \in DOMAIN runs : runs[id].turns = MaxTurns

\* C8: the seller speaks on turn 1 and the roles alternate on every turn,
\* whatever the turn before was; the turn number grows by one per turn.
C8_StrictAlternation ==
    /\ \A k \in Reqs :
          Running(k) => /\ T[k].m.turns >= 1
                        /\ (T[k].m.activeAgent = "seller") <=> (T[k].m.turns % 2 = 1)
                        /\ \A n \in DOMAIN T[k].m.logs :
                              /\ T[k].m.logs[n].turn = n
                              /\ (T[k].m.logs[n].role = "seller") <=> (n % 2 = 1)
    /\ (Replied /\ ev.outcome = "continues") =>
          /\ T[ev.k].m.turns = ev.pre.m.turns + 1
          /\ T[ev.k].m.activeAgent = Other(ev.pre.m.activeAgent)
    /\ \A id \in DOMAIN runs :
          \A n \in DOMAIN runs[id].logs :
              /\ runs[id].logs[n].turn = n
              /\ (runs[id].logs[n].role = "seller") <=> (n % 2 = 1)

\* C8 witness: the match goes on to its last turn right after a rejected
\* deal claim that carried no offer.
C8_Witness ==
    /\ Replied /\ ev.outcome = "continues"
    /\ ev.response.deal /\ ev.response.offer = Null /\ RejectionLogged
    /\ T[ev.k].m.turns = MaxTurns

C9_ExplicitNullsEndMatch ==
    (Replied /\ ev.pre.m.turns >= 2
        /\ ev.pre.m.prevOffer = Null /\ ev.response.offer = Null)
    => (ev.outcome = "returned" /\ ~LastRecord.dealReached)

\* C10: every match recorded without a deal has sellerScore = buyerScore = 0,
\* in its run record and in its manifest entry.
C10_NoDealScoresZero ==
    /\ \A id \in DOMAIN runs :
          ~runs[id].dealReached =>
              runs[id].seller.score.num = 0 /\ runs[id].buyer.score.num = 0
    /\ \A n \in DOMAIN manifest :
          ~manifest[n].dealReached =>
              manifest[n].seller.score.num = 0 /\ manifest[n].buyer.score.num = 0

\* C10 witness: one match ended at the turn cap and one by silence, both
\* without a deal.
C10_Witness ==
    \E a, b \in DOMAIN runs :
        /\ ~runs[a].dealReached /\ runs[a].turns = MaxTurns
        /\ Len(runs[a].logs) = MaxTurns
        /\ ~runs[b].dealReached /\ Len(runs[b].logs) < runs[b].turns

---------------------------------------------------------------------------
\* Properties under Spec

\* C2: whenever a tournament is still running, a stop request sets its
\* abort signal.
C2_StopAbortsRunning ==
    ev.kind = "stop" => \A k \in Reqs : Running(k) => aborted[k]

\* C3: at most one tournament is running with an un-aborted signal.
C3_OneLiveTournament ==
    Cardinality({k \in Reqs : Running(k) /\ ~aborted[k]}) <= 1

\* C4: once its abort signal is set a tournament starts no further match and
\* runTournament returns normally: it never throws to its caller.
C4_AbortReturnsNormally ==
    /\ \A k \in Reqs : aborted[k] => T[k].pc # "error"
    /\ (ev.kind \in {"reply", "throw"} /\ aborted[ev.k]) =>
          T[ev.k].matches = ev.pre.matches

\* C5: a match whose abort signal was set while it was in flight writes no
\* run record, adds no manifest entry and logs no outcome line.
C5_AbortedMatchLeavesNoOutcome ==
    (Replied /\ aborted[ev.k]) => (writes = <<>> /\ ~OutcomeLogged)

\* C6: setting the abort signal removes or changes no run record and no
\* manifest entry, and neither does anything the cancelled tournament does
\* afterwards: every record and entry that was in the store when the signal
\* was set is still there, unchanged, after each of its steps.
IsSuffix(old, new) ==
    /\ Len(new) >= Len(old)
    /\ SubSeq(new, Len(new) - Len(old) + 1, Len(new)) = old

C6_CancelKeepsCompletedResults ==
    [][/\ aborted' # aborted => (runs' = runs /\ manifest' = manifest)
       /\ \A k \in Reqs :
             (ev' # ev /\ ev'.kind \in {"reply", "throw"} /\ ev'.k = k /\ aborted[k]) =>
                 /\ \A id \in DOMAIN atAbort[k].runs :
                       runs[id] = atAbort[k].runs[id] => runs'[id] = runs[id]
                 /\ IsSuffix(atAbort[k].manifest, manifest) =>
                       IsSuffix(atAbort[k].manifest, manifest')]_vars

\* C15: every start request ends its event stream with exactly one terminal
\* event, 'complete' or 'error': never two, none while the tournament runs,
\* one as soon as runTournament has returned or thrown, and every request
\* whose generation calls are all answered gets there, whether the
\* tournament finishes, fails or is cancelled.
C15_Terminated(k) == Len(T[k].terminal) = 1

C15_OneEventAtMost ==
    \A k \in Reqs :
        /\ Len(T[k].terminal) <= 1
        /\ C15_Terminated(k) <=> T[k].pc \in {"complete", "error"}
        /\ T[k].pc = "complete" => T[k].terminal = <<"complete">>
        /\ T[k].pc = "error" => T[k].terminal = <<"error">>

---------------------------------------------------------------------------
\* Scores of deals (SpecMatch)

\* Two fractions denote the same number (denominators are positive).
ScoreEq(a, b) == a.num * b.den = b.num * a.den

\* A persisted result that ended in a deal at a numeric price.
NumericDeal(rec) == rec.dealReached /\ rec.dealPrice.kind = "number"

ScoredFromPrice(rec) ==
    /\ ScoreEq(rec.seller.score,
               [num |-> rec.dealPrice.v - rec.seller.estimate,
                den |-> rec.seller.estimate])
    /\ ScoreEq(rec.buyer.score,
               [num |-> rec.buyer.estimate - rec.dealPrice.v,
                den |-> rec.buyer.estimate])

\* C11: every match that ends in a deal at a numeric price P (0 included)
\* records sellerScore = (P - sellerEstimate) / sellerEstimate and
\* buyerScore = (buyerEstimate - P) / buyerEstimate.
C11_DealScoredFromPrice ==
    \A id \in DOMAIN runs : NumericDeal(runs[id]) => ScoredFromPrice(runs[id])

\* C11, restricted to prices other than 0: this much holds of the code.
C11_NonZeroDealScoredFromPrice ==
    \A id \in DOMAIN runs :
        (NumericDeal(runs[id]) /\ runs[id].dealPrice.v # 0) =>
            ScoredFromPrice(runs[id])

---------------------------------------------------------------------------
\* Failed matches and the store (SpecMatch)

\* The step is a callback of the given kind.
Callback(kind) == ev' # ev /\ ev'.kind = kind

\* C17: a match that ends with an exception from the generation capability
\* writes no run record and no manifest entry: none of its turns and not its
\* failure changes the run store or the manifest.
C17_FailedMatchWritesNothing ==
    [][/\ Callback("throw") => (runs' = runs /\ manifest' = manifest /\ writes' = <<>>)
       /\ (Callback("reply") /\ ev'.outcome = "continues") =>
             (runs' = runs /\ manifest' = manifest /\ writes' = <<>>)]_vars

\* C17 witness: the second match of the pair has failed on its last turn
\* after the first match was saved, and the store holds the first match only.
C17_Witness ==
    /\ ev.kind = "throw" /\ ev.pre.leg = 2 /\ ev.pre.m.turns = MaxTurns
    /\ Len(manifest) = 1 /\ DOMAIN runs = {manifest[1].id}
    /\ manifest[1].id # ev.pre.m.runId

---------------------------------------------------------------------------
\* The match log (SpecMatch)

\* Entry n of the log is turn n, spoken by the role whose turn it was.
LogFollowsTurns(rec) ==
    \A n \in DOMAIN rec.logs :
        /\ rec.logs[n].turn = n
        /\ rec.logs[n].role = (IF n % 2 = 1 THEN "seller" ELSE "buyer")

\* C18: every turn taken in a match is appended to the match log, whatever
\* its outcome: in every result the log has exactly `turns` entries, and
\* entry k has turn index k and the role that spoke on turn k.
C18_EveryTurnLogged ==
    \A id \in DOMAIN runs :
        Len(runs[id].logs) = runs[id].turns /\ LogFollowsTurns(runs[id])

\* C18, without the count: the entries that are in the log are in turn
\* order, and only the turn that ends a match by silence is missing.
C18_LoggedTurnsInOrder ==
    /\ \A id \in DOMAIN runs :
          /\ LogFollowsTurns(runs[id])
          /\ Len(runs[id].logs) \in {runs[id].turns - 1, runs[id].turns}
    /\ (Replied /\ ev.outcome = "returned") =>
          (Len(LastRecord.logs) = LastRecord.turns - 1
              <=> \E line \in Range(emitted) : line = "Negotiation ended")

---------------------------------------------------------------------------
\* Properties under SpecAgent

\* The text holds a complete JSON object with the four fields somewhere.
HoldsFullObject(text) ==
    \E a \in DOMAIN text, b \in DOMAIN text :
        a <= b /\ SubSeq(text, a, b) = <<"{", "F", "}">>

\* The last generateResponse call got a text and has ended.
CallEnded == agent.pc = "idle" /\ agent.reply.status # "none"

\* C12: for every raw text that is not a JSON object with the fields thought,
\* message, offer and deal, generateResponse does not throw and returns a
\* reply whose offer is null and whose deal is false.
C12_MalformedGivesFallback ==
    (CallEnded /\ agent.reply.status = "returned" /\ ~HoldsFullObject(agent.text))
    => (agent.reply.offer = Null /\ agent.reply.deal = "false")

\* The text holds no JSON value anywhere.
HoldsNoJson(text) ==
    /\ ~JSONParse(text).ok
    /\ \A a \in DOMAIN text, b \in DOMAIN text :
          a <= b => ~JSONParse(SubSeq(text, a, b)).ok

\* C12, restricted to texts that hold no JSON value: this much holds, and
\* the fallback reply carries the raw text as its message.
C12_UnparsableGivesFallback ==
    (CallEnded /\ agent.reply.status = "returned" /\ HoldsNoJson(agent.text))
    => /\ agent.reply.offer = Null /\ agent.reply.deal = "false"
       /\ agent.reply.message = Str(agent.text)
       /\ agent.reply.thought = Str(<<"Failed to parse JSON output">>)

---------------------------------------------------------------------------
\* Properties under SpecSched

\* The tournament of the first start request.
Tour == T[1]
Roster == Tour.modelKeys
RosterSize == Len(Roster)

\* Place of a model in the roster.
IndexOf(name) == CHOOSE n \in DOMAIN Roster : Roster[n] = name

Finished == Tour.pc = "complete"

MatchesOf(round, seller, buyer) ==
    {p \in DOMAIN Tour.schedule :
        Tour.schedule[p] = [round |-> round, seller |-> seller, buyer |-> buyer]}

\* C13: with no cancellation a roster of N distinct entries run for R rounds
\* starts exactly N*(N-1)*R matches, one for every ordered (seller, buyer)
\* pair of distinct entries in every round, also when matches fail.
C13_AllOrderedPairsEveryRound ==
    /\ Len(Tour.schedule) <= RosterSize * (RosterSize - 1) * Tour.rounds
    /\ Tour.matches = Len(Tour.schedule)
    /\ Finished =>
          /\ Tour.matches = RosterSize * (RosterSize - 1) * Tour.rounds
          /\ \A round \in 1..Tour.rounds, a \in DOMAIN Roster, b \in DOMAIN Roster :
                Cardinality(MatchesOf(round, Roster[a], Roster[b])) =
                    IF a = b THEN 0 ELSE 1

\* C13 witness: three models have played two rounds, twelve matches, some of
\* which failed.
C13_Witness ==
    /\ Finished /\ RosterSize = 3 /\ Tour.rounds = 2
    /\ Tour.matches = 12 /\ Tour.errors > 0 /\ Tour.errors < 12

\* The same two models in the same round with the roles exchanged.
Reversed(x, y) ==
    x.round = y.round /\ x.seller = y.buyer /\ x.buyer = y.seller

\* C14: within each round every unordered pair {A, B}, A before B in the
\* roster, plays exactly two matches, first A as seller against B as buyer
\* and right after it B as seller against A as buyer; the second starts only
\* after the first has completed or failed (one match is in progress at most).
C14_BothLegsInOrder ==
    /\ \A p \in DOMAIN Tour.schedule :
          IF p % 2 = 1
          THEN IndexOf(Tour.schedule[p].seller) < IndexOf(Tour.schedule[p].buyer)
          ELSE Reversed(Tour.schedule[p - 1], Tour.schedule[p])
    /\ Tour.matches - Tour.finished = IF Tour.pc = "await" THEN 1 ELSE 0
    /\ Finished =>
          \A round \in 1..Tour.rounds, a \in DOMAIN Roster, b \in DOMAIN Roster :
              a < b =>
                  \E p \in DOMAIN Tour.schedule :
                      /\ MatchesOf(round, Roster[a], Roster[b]) = {p}
                      /\ MatchesOf(round, Roster[b], Roster[a]) = {p + 1}

\* C14 witness: the second match of a pair of a three-model roster starts
\* right after the first one has failed.
C14_Witness ==
    /\ ev.kind = "throw" /\ Tour.pc = "await" /\ RosterSize = 3
    /\ Len(Tour.schedule) % 2 = 0
    /\ Tour.finished = Len(Tour.schedule) - 1

\* The schedule of a whole tournament: its rounds in order, in each round the
\* pairs i < j in the order of the roster, for each pair both matches.
PairsBefore(i, j) ==
    Cardinality({q \in (DOMAIN Roster) \X (DOMAIN Roster) :
                    q[1] < q[2] /\ (q[1] < i \/ (q[1] = i /\ q[2] < j))})

PairCount == (RosterSize * (RosterSize - 1)) \div 2

Place(round, i, j, first) ==
    (round - 1) * 2 * PairCount + 2 * PairsBefore(i, j) + (IF first THEN 1 ELSE 2)

FullSchedule ==
    [p \in 1..(Tour.rounds * 2 * PairCount) |->
        LET x == CHOOSE x \in (1..Tour.rounds) \X (DOMAIN Roster) \X (DOMAIN Roster) \X BOOLEAN :
                    x[2] < x[3] /\ Place(x[1], x[2], x[3], x[4]) = p
        IN  [round |-> x[1],
             seller |-> Roster[IF x[4] THEN x[2] ELSE x[3]],
             buyer |-> Roster[IF x[4] THEN x[3] ELSE x[2]]]]

\* C16: when a match fails with an error other than the cancellation the
\* tournament does not stop: it goes on with the match that would have come
\* next had the failed match completed, and runs every remaining match.
C16_FailureDoesNotStopSchedule ==
    /\ Tour.pc # "error"
    /\ ev.kind = "throw" =>
          LET done == Len(ev.pre.schedule)
          IN  /\ Tour.pc = (IF done < Len(FullSchedule) THEN "await" ELSE "complete")
              /\ Tour.schedule =
                    SubSeq(FullSchedule, 1, IF done < Len(FullSchedule)
                                            THEN done + 1 ELSE done)
    /\ (Finished /\ Tour.errors > 0) => Tour.schedule = FullSchedule

\* C16 witness: a tournament of three models and two rounds has run to its
\* end although its first match and others failed.
C16_Witness ==
    /\ Finished /\ RosterSize = 3 /\ Tour.rounds = 2
    /\ Tour.errors >= 2 /\ Tour.schedule = FullSchedule
    /\ \E id \in DOMAIN runs : runs[id].seller.name = Roster[3]

---------------------------------------------------------------------------
\* The manifest and the run ids (Spec)

RECURSIVE SumSaved(_)
SumSaved(ks) ==
    IF ks = {} THEN 0
    ELSE LET k == CHOOSE k \in ks : TRUE
         IN  T[k].saved + SumSaved(ks \ {k})

\* C19: the manifest holds exactly one entry per completed match, newest
\* first in completion order; a completed match puts its entry in front of
\* the entries already there, which are neither dropped nor reordered.
C19_ManifestNewestFirst ==
    [][/\ Len(manifest) = SumSaved(Reqs)
       /\ Len(manifest') = SumSaved(Reqs)'
       /\ \A n \in DOMAIN manifest, q \in DOMAIN manifest :
             n < q => manifest[n].date >= manifest[q].date
       /\ manifest' # manifest =>
             /\ Len(manifest') = Len(manifest) + 1
             /\ SubSeq(manifest', 2, Len(manifest')) = manifest
             /\ ev'.kind = "reply" /\ ev'.outcome = "returned"
             /\ manifest'[1].id = ev'.pre.m.runId
             /\ manifest'[1].date = clock
       /\ (Callback("reply") /\ ev'.outcome = "returned") =>
             Len(manifest') = Len(manifest) + 1]_vars

\* C19 witness: four matches of two tournaments have completed, the oldest
\* and the newest at different times.
C19_Witness ==
    /\ Len(manifest) = 4
    /\ manifest[1].date > manifest[4].date
    /\ T[1].saved = 2 /\ T[2].saved = 2

\* C20: every persisted result has a run id different from the id of every
\* other persisted result: no two manifest entries share an id and no run
\* record is overwritten by a later match.
C20_RunIdsUnique ==
    /\ \A n \in DOMAIN manifest, q \in DOMAIN manifest :
          n # q => manifest[n].id # manifest[q].id
    /\ Cardinality(DOMAIN runs) = Len(manifest)

\* C20, the second half: a run id is the clock reading at the start of the
\* match with the suffix 1 (first match of a pair) or 2 (second match).
C20_IdFromClockAndSuffix ==
    /\ \A k \in Reqs :
          Running(k) => /\ T[k].m.runId[2] = T[k].leg
                        /\ T[k].m.runId[1] \in 0..clock
    /\ \A id \in DOMAIN runs : runs[id].id = id /\ id[2] \in {1, 2}

---------------------------------------------------------------------------
\* Stop requests (Spec)

\* C21: a stop request received when no tournament is active changes no
\* state and answers without error (no_active_benchmark); after a stop
\* request no tournament is active, so a second stop request in a row is
\* such a request and leaves the server as the first one left it.
C21_StopIdempotent ==
    [][/\ (Callback("stop") /\ activeController = 0) =>
             /\ ev'.status = "no_active_benchmark"
             /\ UNCHANGED <<activeController, aborted, closed, T, runs,
                            manifest, clock, agent>>
       /\ ev'.kind = "stop" =>
             /\ activeController' = 0
             /\ ev'.status \in {"stopped", "no_active_benchmark"}
       /\ (ev.kind = "stop" /\ ev'.kind = "stop") =>
             UNCHANGED <<activeController, aborted, closed, T, runs, manifest>>]_vars

\* C21 witness: a stop request found nothing to stop right after another
\* stop request had stopped a tournament that is still running.
C21_Witness ==
    /\ ev.kind = "stop" /\ ev.status = "no_active_benchmark"
    /\ \E k \in Reqs : aborted[k] /\ Running(k) /\ k \notin closed

---------------------------------------------------------------------------
\* Errors and the log sink (SpecMatch)

\* The lines runTournament and runMatch send through the logger for info
\* and rejection events.
InfoLines ==
    {"Initializing Benchmark", "Starting Tournament", "ROUND", "Starting Match",
     "Matchup", "Item", "Estimates", "turn", "Rejected deal: mismatch",
     "Rejected deal: no valid offer", "Negotiation ended", "DEAL REACHED",
     "NO DEAL REACHED.", "Tournament Complete."}

\* C22: when a match fails with an error other than the cancellation, a
\* line of text describing the failure is sent through the logger.
C22_FailureLogged ==
    ev.kind = "throw" => \E line \in Range(emitted) : line \notin InfoLines

\* C22, what the logger does get when a match fails: the lines of the next
\* match or of the end of the tournament, and only those.
C22_FailureLeavesInfoLinesOnly ==
    ev.kind = "throw" =>
        /\ emitted # <<>>
        /\ emitted[1] \in {"Starting Match", "Tournament Complete."}
        /\ \A line \in Range(emitted) : line \in InfoLines

---------------------------------------------------------------------------
\* Private estimates (SpecDraw)

\* round(v * (1 - f)) and round(v * (1 + f)) for a scenario of the catalog.
LowestEstimate(sc) == RoundDiv(sc.value * (100 - sc.variance), 100)
HighestEstimate(sc) == RoundDiv(sc.value * (100 + sc.variance), 100)

EstimateInRange(sc, est) ==
    est >= LowestEstimate(sc) /\ est <= HighestEstimate(sc) /\ est > 0

\* C23: for every scenario of the catalog both private estimates of a match
\* lie in [round(v*(1-f)), round(v*(1+f))]; for v = 38000 and f = 0.1 the
\* seller estimate lies in [34200, 41800]; every estimate is strictly
\* positive, in the running match and in every saved result.
C23_EstimatesWithinVariance ==
    /\ \A k \in Reqs :
          Running(k) =>
              /\ EstimateInRange(SCENARIOS[T[k].m.scenario], T[k].m.sellerEst)
              /\ EstimateInRange(SCENARIOS[T[k].m.scenario], T[k].m.buyerEst)
              /\ T[k].m.scenario = 1 =>
                    T[k].m.sellerEst >= 34200 /\ T[k].m.sellerEst <= 41800
    /\ \A id \in DOMAIN runs :
          \E n \in DOMAIN SCENARIOS :
              /\ SCENARIOS[n].item = runs[id].item
              /\ EstimateInRange(SCENARIOS[n], runs[id].seller.estimate)
              /\ EstimateInRange(SCENARIOS[n], runs[id].buyer.estimate)

\* C23 witness: a match on the watch with the lowest seller estimate and the
\* highest buyer estimate that can be drawn, after a match on the NFT was
\* saved with the lowest estimate of the catalog.
C23_Witness ==
    /\ Running(1) /\ T[1].m.scenario = 1
    /\ T[1].m.sellerEst = 34200 /\ T[1].m.buyerEst = Estimate(SCENARIOS[1], 99)
    /\ T[1].m.buyerEst > 41700
    /\ \E id \in DOMAIN runs : runs[id].seller.estimate = 7500

---------------------------------------------------------------------------
\* The pending offer (SpecMatch)

\* The match of the last callback before and after the turn.
Before == ev.pre.m
After == T[ev.k].m

OfferTaken ==
    /\ After.lastOffer = ev.response.offer
    /\ After.lastOfferBy = Before.activeAgent
    /\ After.consecutiveNulls = 0

OfferKept ==
    /\ After.lastOffer = Before.lastOffer
    /\ After.lastOfferBy = Before.lastOfferBy
    /\ After.consecutiveNulls = Before.consecutiveNulls + 1

\* C24: on every turn that does not conclude a deal and carries an offer
\* (a turn whose deal claim was rejected included) the offer becomes the
\* pending offer, tagged with the speaker's role, and the no-offer streak is
\* reset to 0; on a turn without an offer the pending offer and its owner
\* are unchanged and the streak grows by exactly 1.
C24_PendingOfferTracked ==
    (Replied /\ ev.outcome = "continues") =>
        IF AbsentOffer(ev.response.offer) THEN OfferKept ELSE OfferTaken

\* C24, restricted to replies whose offer field is a number or an explicit
\* null: this much holds of the code.
C24_ExplicitOfferTracked ==
    (Replied /\ ev.outcome = "continues" /\ ev.response.offer # Undefined) =>
        IF ev.response.offer = Null THEN OfferKept ELSE OfferTaken

---------------------------------------------------------------------------
\* Cancellation and generation calls (Spec)

\* C25: once the abort signal of a tournament is set none of its matches
\* starts another generation call: the call that is pending stays the only
\* one, and when the match comes to its next turn it ends there by raising
\* 'Benchmark Aborted', without scores, record or manifest entry.
C25_NoCallAfterAbort ==
    [][\A k \in Reqs :
          aborted[k] =>
              /\ T'[k].pc = "await" => T'[k] = T[k]
              /\ T'[k].matches = T[k].matches
              /\ (Callback("reply") /\ ev'.k = k /\ LoopGuard(T[k].m)
                    /\ ev'.outcome # "returned") =>
                    /\ ev'.outcome = "aborted"
                    /\ T'[k].pc = "error"
                    /\ runs' = runs /\ manifest' = manifest /\ writes' = <<>>
                    /\ \A line \in Range(emitted') :
                          line \notin {"DEAL REACHED", "NO DEAL REACHED."}]_vars

\* C25 witness: the signal was set during the first turn of a match, and the
\* match has raised 'Benchmark Aborted' where its second turn would begin.
C25_Witness ==
    /\ Replied /\ aborted[ev.k] /\ ev.pre.m.turns = 1
    /\ ev.outcome = "aborted" /\ T[ev.k].pc = "error"

---------------------------------------------------------------------------
\* Token counts (SpecToken)

Roles == {"seller", "buyer"}

\* The output tokens reported for the turns of a role, the turn of the last
\* callback included.
ReportedFor(role) ==
    Before.reported[role]
        + (IF Before.activeAgent = role THEN ev.response.usage ELSE 0)

\* C26: in every run record each agent's token count is the sum of the
\* output-token counts reported for all the turns the agent took in the
\* match (a missing report counts 0), the turn that ended the match
\* included; the count never decreases during a match.
C26_TokensCountEveryTurn ==
    /\ (Replied /\ ev.outcome = "returned") =>
          \A role \in Roles : LastRecord[role].thinkingTokens = ReportedFor(role)
    /\ (Replied /\ ev.outcome = "continues") =>
          \A role \in Roles : After.totalTokens[role] >= Before.totalTokens[role]

\* C26, leaving out the turn that ended the match by silence: this much
\* holds of the code.
C26_TokensCountLoggedTurns ==
    /\ (Replied /\ ev.outcome = "returned") =>
          \A role \in Roles :
              LastRecord[role].thinkingTokens =
                  IF LastRecord.turns > Len(LastRecord.logs)
                  THEN Before.reported[role]
                  ELSE ReportedFor(role)
    /\ (Replied /\ ev.outcome = "continues") =>
          \A role \in Roles :
              /\ After.totalTokens[role] >= Before.totalTokens[role]
              /\ After.totalTokens[role] = ReportedFor(role)

---------------------------------------------------------------------------
\* Transcripts and messages (SpecTalk)

\* A transcript that starts with a 'user' entry and alternates.
Alternates(h) ==
    \A n \in DOMAIN h : h[n].role = (IF n % 2 = 1 THEN "user" ELSE "assistant")

IsPrefix(old, new) ==
    /\ Len(new) >= Len(old)
    /\ SubSeq(new, 1, Len(old)) = old

\* The step takes tournament k from one turn of a match to the next one.
NextTurn(k) ==
    /\ T[k].pc = "await" /\ T'[k].pc = "await"
    /\ T'[k].matches = T[k].matches
    /\ T'[k].m.turns = T[k].m.turns + 1

TurnsOf(role, turns) == IF role = "seller" THEN (turns + 1) \div 2 ELSE turns \div 2

\* Entries are only appended to the transcripts, and each turn adds one
\* 'assistant' entry to the transcript of the agent that took it.
AppendOnly(k) ==
    \A role \in Roles :
        /\ IsPrefix(T[k].m.history[role], T'[k].m.history[role])
        /\ Cardinality({n \in DOMAIN T'[k].m.history[role] :
                            T'[k].m.history[role][n].role = "assistant"})
              = TurnsOf(role, T[k].m.turns)

\* C27: after every turn of a match each agent's transcript strictly
\* alternates 'user' (counterpart) and 'assistant' (self) entries, starting
\* with a 'user' entry, whatever the replies are (an empty or missing
\* message included); entries are only appended, never removed or changed.
C27_TranscriptAlternates ==
    [][\A k \in Reqs :
          NextTurn(k) =>
              /\ \A role \in Roles : Alternates(T'[k].m.history[role])
              /\ AppendOnly(k)]_vars

\* C27 without the alternation: this much holds of the code.
C27_TranscriptAppendOnly ==
    [][\A k \in Reqs : NextTurn(k) => AppendOnly(k)]_vars

\* C27 for replies that say something: the transcripts alternate as long as
\* no message of the match was empty or missing.
C27_AlternatesAfterText ==
    [][\A k \in Reqs :
          (NextTurn(k)
             /\ \A role \in Roles : Alternates(T[k].m.history[role])
             /\ Len(T[k].m.history[T[k].m.activeAgent]) % 2 = 1
             /\ ev'.response.message = Str(<<"w">>)) =>
              \A role \in Roles : Alternates(T'[k].m.history[role])]_vars

\* The message the agent whose turn it is in tournament k was called with
\* (benchmark.js line 96), and the last entry of its transcript.
Given(k) == T[k].m.lastMessage
Heard(k) ==
    LET h == T[k].m.history[T[k].m.activeAgent]
    IN  IF h = <<>> THEN NoText ELSE h[Len(h)].content

\* C28: on turn 1 the active agent is given the fixed opening prompt, and on
\* every turn k > 1 it is given exactly the message field of the reply of
\* turn k-1 (which is what it finds at the end of its transcript when that
\* message is a non-empty string).
C28_AnswersPreviousMessage ==
    [][\A k \in Reqs :
          (T'[k].pc = "await" /\ T'[k] # T[k]) =>
              IF T'[k].m.turns = 1
              THEN /\ Given(k)' = Opening
                   /\ T'[k].m.activeAgent = "seller"
                   /\ Heard(k)' = Opening
              ELSE /\ Callback("reply") /\ ev'.k = k
                   /\ T'[k].m.turns = T[k].m.turns + 1
                   /\ Given(k)' = ev'.response.message
                   /\ ev'.response.message = Str(<<"w">>) =>
                         Heard(k)' = ev'.response.message]_vars

\* C28 witness: the sixth turn of the buyer answers what the seller said on
\* turn 11.
C28_Witness ==
    /\ Replied /\ ev.outcome = "continues" /\ ev.pre.m.turns = MaxTurns - 1
    /\ Given(ev.k) = ev.response.message /\ Given(ev.k) = Str(<<"w">>)
    /\ Heard(ev.k) = Str(<<"w">>)
    /\ T[ev.k].m.activeAgent = "buyer"

---------------------------------------------------------------------------
\* Turns of each agent (SpecMatch)

\* The generation calls made on an agent in the match: those it has answered
\* and the one that is pending.
TurnsTaken(m, role) ==
    Cardinality({n \in DOMAIN m.history[role] : m.history[role][n].role = "assistant"})
        + (IF m.activeAgent = role THEN 1 ELSE 0)

\* C29: in every match neither agent takes more than 6 turns: the seller
\* speaks only on the odd turns and the buyer only on the even turns of the
\* at most 12 turns the two share.
C29_SixTurnsEach ==
    \A k \in Reqs :
        Running(k) =>
            LET m == T[k].m
            IN  /\ m.turns \in 1..MaxTurns
                /\ m.activeAgent = (IF m.turns % 2 = 1 THEN "seller" ELSE "buyer")
                /\ TurnsTaken(m, "seller") = (m.turns + 1) \div 2
                /\ TurnsTaken(m, "buyer") = m.turns \div 2
                /\ \A role \in Roles : TurnsTaken(m, role) <= MaxTurns \div 2

\* C29 witness: the buyer is called for the last turn of a match, the sixth
\* for each agent.
C29_Witness ==
    \E k \in Reqs :
        /\ Running(k) /\ T[k].m.turns = MaxTurns /\ T[k].m.activeAgent = "buyer"
        /\ TurnsTaken(T[k].m, "seller") = 6 /\ TurnsTaken(T[k].m, "buyer") = 6

---------------------------------------------------------------------------
\* Signs of the scores (SpecMatch)

Sign(x) == IF x > 0 THEN 1 ELSE IF x < 0 THEN -1 ELSE 0

\* The sign of a score kept as a fraction.
ScoreSign(score) == Sign(score.num) * Sign(score.den)

\* The scores of a record have the signs of the margins between the price
\* and the private estimates.
SignsFollowPrice(rec) ==
    /\ ScoreSign(rec.seller.score) = Sign(rec.dealPrice.v - rec.seller.estimate)
    /\ ScoreSign(rec.buyer.score) = Sign(rec.buyer.estimate - rec.dealPrice.v)

\* C30: for every deal price P and positive estimates, sellerScore is
\* positive, zero or negative as P is above, at or below sellerEstimate, and
\* buyerScore is positive, zero or negative as P is below, at or above
\* buyerEstimate.
C30_ScoreSigns ==
    \A id \in DOMAIN runs :
        NumericDeal(runs[id]) =>
            /\ runs[id].seller.estimate > 0 /\ runs[id].buyer.estimate > 0
            /\ SignsFollowPrice(runs[id])

\* C30, restricted to prices other than 0: this much holds of the code.
C30_NonZeroScoreSigns ==
    \A id \in DOMAIN runs :
        (NumericDeal(runs[id]) /\ runs[id].dealPrice.v # 0) =>
            /\ runs[id].seller.estimate > 0 /\ runs[id].buyer.estimate > 0
            /\ SignsFollowPrice(runs[id])

---------------------------------------------------------------------------
\* One match at a time (SpecSched)

\* The matches of tournament k that have started and have not yet returned
\* or thrown.
InProgress(k) == T[k].matches - T[k].finished

\* C31: within one runTournament invocation the matches run strictly one
\* after another: at any moment at most one match of the tournament is in
\* progress, and a match starts only after the one before it has returned
\* or thrown.
C31_OneMatchAtATime ==
    [][\A k \in Reqs :
          /\ InProgress(k)' = (IF T'[k].pc = "await" THEN 1 ELSE 0)
          /\ T'[k].matches # T[k].matches =>
                /\ T'[k].matches = T[k].matches + 1
                /\ T'[k].finished = T[k].matches]_vars

\* C31 witness: the sixth match of a tournament of three models is in
\* progress, one of the five before it threw and the others returned.
C31_Witness ==
    \E k \in Reqs :
        /\ Running(k) /\ T[k].matches = 6 /\ T[k].finished = 5
        /\ T[k].errors = 1 /\ T[k].saved = 4

---------------------------------------------------------------------------
\* Private estimates (SpecCli, SpecMatch)

\* The estimates in a run record are the ones the match drew, and a scored
\* deal is scored against them.
RecordsEstimates(rec, m) ==
    /\ rec.seller.estimate = m.sellerEst /\ rec.buyer.estimate = m.buyerEst
    /\ Truthy(rec.dealPrice) =>
          /\ rec.seller.score.den = rec.seller.estimate
          /\ rec.buyer.score.den = rec.buyer.estimate

\* The estimate in each agent's system prompt is the one the match drew for
\* its role.
PromptsHold(m) ==
    /\ m.privateEstimate.seller = Num(m.sellerEst)
    /\ m.privateEstimate.buyer = Num(m.buyerEst)

\* The server match loop: prompts, scores and record share the estimates.
ServerEstimatesShared ==
    /\ \A k \in Reqs : Running(k) => PromptsHold(T[k].m)
    /\ (Replied /\ ev.outcome = "returned") => RecordsEstimates(LastRecord, ev.pre.m)

\* The record of the CLI's match.
CliRecord == runs[cli.runId]
CliDone == cli.pc = "done"

\* C32: in every match the private estimate given to each agent (the value
\* in its system prompt) is the number used to compute that agent's score
\* and recorded in the result, in the server match loop and in the CLI
\* match loop.
C32_EstimateShared ==
    /\ ServerEstimatesShared
    /\ cli.pc \in {"await", "done"} => PromptsHold(cli)
    /\ CliDone => RecordsEstimates(CliRecord, cli)

\* C32 for the server match loop alone: this much holds of the code.
C32_ServerEstimateShared ==
    /\ ServerEstimatesShared
    /\ \A id \in DOMAIN runs :
          runs[id].seller.estimate > 0 /\ runs[id].buyer.estimate > 0

\* C32 for the CLI without the prompts: the record and the scores use the
\* estimates the match drew.
C32_CliEstimateRecorded == CliDone => RecordsEstimates(CliRecord, cli)

---------------------------------------------------------------------------
\* Deal flag and price (SpecMatch)

\* The price of the record is the offer that was pending before the final
\* turn, and the other role had made it.
PriceIsPendingOffer ==
    /\ LastRecord.dealPrice = Before.lastOffer
    /\ Before.lastOfferBy = Other(Before.activeAgent)

\* C33: in every run record the deal flag and the price agree: dealReached
\* is true if and only if dealPrice is a number, and when dealReached is true
\* dealPrice is the pending offer the other role had made just before the
\* final turn.
C33_FlagAndPriceAgree ==
    /\ \A id \in DOMAIN runs :
          runs[id].dealReached <=> runs[id].dealPrice.kind = "number"
    /\ (Replied /\ DealRecorded) => PriceIsPendingOffer

\* C33 with "is not null" for "is a number": this much holds of the code.
C33_FlagAndPriceNotNull ==
    /\ \A id \in DOMAIN runs : runs[id].dealReached <=> runs[id].dealPrice # Null
    /\ (Replied /\ DealRecorded) => PriceIsPendingOffer

---------------------------------------------------------------------------
\* The deal flag in the log (SpecMatch)

\* In the log of a record only the last entry can have deal = true, and it
\* has it exactly when the match ended in a deal.
OneDealEntry(rec) ==
    /\ \A n \in DOMAIN rec.logs :
          rec.logs[n].deal => (n = Len(rec.logs) /\ rec.dealReached)
    /\ rec.dealReached => (rec.logs # <<>> /\ rec.logs[Len(rec.logs)].deal)

\* The last callback resumed a match with a deal claim that was rejected.
ClaimRejected == Replied /\ ev.response.deal /\ RejectionLogged

\* The log that holds the turn of the last callback.
LogOfTurn == IF ev.outcome = "returned" THEN LastRecord.logs ELSE After.logs

\* C34: in the log of every run record at most one entry has deal = true; if
\* there is one it is the last entry and the match has dealReached = true,
\* and if the match has dealReached = true its last entry has deal = true.
\* Every rejected deal claim is logged with deal = false.
C34_DealFlagInLog ==
    /\ \A id \in DOMAIN runs : OneDealEntry(runs[id])
    /\ ClaimRejected =>
          \E n \in DOMAIN LogOfTurn :
              LogOfTurn[n].turn = Before.turns /\ ~LogOfTurn[n].deal

\* C34 for the turns that are logged: this much holds of the code.
C34_LoggedDealFlag ==
    /\ \A id \in DOMAIN runs : OneDealEntry(runs[id])
    /\ ClaimRejected =>
          \A n \in DOMAIN LogOfTurn :
              LogOfTurn[n].turn = Before.turns => ~LogOfTurn[n].deal
    /\ (ClaimRejected /\ ev.outcome = "continues") =>
          \E n \in DOMAIN LogOfTurn : LogOfTurn[n].turn = Before.turns

---------------------------------------------------------------------------
\* Termination (SpecFair)

\* What holds of the matches while they run and when they end: no match
\* makes more than 12 generation calls, a match that ends logs its outcome
\* and writes its record and its manifest entry, and a tournament that has
\* returned has saved every match of its schedule.
MatchesBounded ==
    /\ \A k \in Reqs :
          /\ Running(k) => T[k].m.turns \in 1..MaxTurns
          /\ T[k].pc = "complete" =>
                /\ T[k].saved = T[k].matches
                /\ T[k].matches = Len(T[k].modelKeys) * (Len(T[k].modelKeys) - 1)
                                     * T[k].rounds
    /\ (Replied /\ ev.outcome = "returned") =>
          /\ LastRecord.turns <= MaxTurns
          /\ OutcomeLogged
          /\ <<"run", Before.runId>> \in Range(writes)
          /\ <<"manifest", Before.runId>> \in Range(writes)

\* C35: every match terminates: provided each generation call returns,
\* runMatch reaches DEAL or NO_DEAL and writes its result after at most 12
\* generation calls, and runTournament terminates after its last scheduled
\* match.
C35_EveryMatchTerminates ==
    /\ []MatchesBounded
    /\ \A n \in 1..2 : (Running(1) /\ Tour.matches = n) ~> (Tour.saved >= n)
    /\ Running(1) ~> (Tour.pc = "complete")

\* C35 witness: a tournament has returned after a match that ran to the
\* turn cap and a match that ended in a deal.
C35_Witness ==
    /\ Tour.pc = "complete" /\ Tour.saved = 2
    /\ \E a, b \in DOMAIN runs :
          /\ runs[a].turns = MaxTurns /\ ~runs[a].dealReached
          /\ runs[b].dealReached

---------------------------------------------------------------------------
\* Run record and manifest entry (SpecMatch)

SameSide(a, b) ==
    /\ a.name = b.name /\ a.model = b.model
    /\ a.estimate = b.estimate /\ a.score = b.score

\* The manifest entry is the summary of the run record.
Summarises(entry, rec) ==
    /\ entry.id = rec.id /\ entry.tournament = rec.tournament
    /\ entry.item = rec.item /\ entry.trueValue = rec.trueValue
    /\ entry.dealReached = rec.dealReached /\ entry.dealPrice = rec.dealPrice
    /\ SameSide(entry.seller, rec.seller) /\ SameSide(entry.buyer, rec.buyer)
    /\ "logs" \in DOMAIN rec /\ "logs" \notin DOMAIN entry

\* C36: the manifest entry written for a match agrees with the run record
\* of the same match on id, tournament, item, true value, deal flag, deal
\* price and each side's name, model, estimate and score; it leaves out the
\* per-turn log; the run record and its manifest entry are each written
\* exactly once per completed match.
C36_EntrySummarisesRecord ==
    [][(Callback("reply") /\ ev'.outcome = "returned") =>
          LET id == ev'.pre.m.runId
          IN  /\ writes' = << <<"run", id>>, <<"manifest", id>> >>
              /\ Len(manifest') = Len(manifest) + 1
              /\ id \in DOMAIN runs'
              /\ Summarises(manifest'[1], runs'[id])
              /\ runs'[id].seller.name = ev'.pre.m.seller
              /\ runs'[id].buyer.name = ev'.pre.m.buyer]_vars

\* C36 witness: the second match of a pair has been saved after a deal, the
\* first one without a deal, and the manifest holds both.
C36_Witness ==
    /\ Replied /\ ev.outcome = "returned" /\ ev.pre.leg = 2
    /\ Len(manifest) = 2 /\ manifest[1].dealReached /\ ~manifest[2].dealReached
    /\ manifest[1].id = Before.runId /\ manifest[1].seller.model = Before.models.seller

---------------------------------------------------------------------------
\* The CLI match loop (SpecCli)

\* The role that took the last turn of the CLI's match.
CliLastSpeaker == cli.logs[Len(cli.logs)].role

\* C37: in the CLI match loop a deal = true claim is never accepted when the
\* pending offer was made by the claiming agent itself: an agent cannot end
\* the match as DEAL by accepting its own standing offer.
C37_CliNoSelfDeal ==
    cli.dealReached => cli.lastOfferBy # CliLastSpeaker

\* What the CLI match loop does check before it accepts a deal claim: there
\* is a pending offer and the claim's offer is == to it.
C37_CliDealOnPendingOffer ==
    cli.dealReached =>
        /\ cli.lastOffer # Null /\ LooseEq(cli.dealPrice, cli.lastOffer)
        /\ cli.logs[Len(cli.logs)].deal
        /\ cli.lastOfferBy \in {"seller", "buyer"}

\* The penalty score of -0.5 and the neutral score of 0.
IsPenalty(score) == ScoreEq(score, [num |-> -1, den |-> 2])
IsNeutral(score) == ScoreEq(score, Zero)

\* The run records written by the server's matches.
ServerRuns == {id \in DOMAIN runs : "tournament" \in DOMAIN runs[id]}

\* C38: in the CLI match loop a match that ends without a deal records
\* sellerScore = buyerScore = -0.5, while the server match loop records 0
\* for both on the same outcome.
C38_NoDealPenaltyInCliOnly ==
    /\ (CliDone /\ ~CliRecord.dealReached) =>
          IsPenalty(CliRecord.seller.score) /\ IsPenalty(CliRecord.buyer.score)
    /\ \A id \in ServerRuns :
          ~runs[id].dealReached =>
              IsNeutral(runs[id].seller.score) /\ IsNeutral(runs[id].buyer.score)

\* C38 witness: the CLI's match and a match of the server have both ended
\* without a deal after two turns without an offer.
C38_Witness ==
    /\ CliDone /\ ~CliRecord.dealReached /\ cli.lastOffer = Null
    /\ IsPenalty(CliRecord.seller.score)
    /\ \E id \in ServerRuns :
          /\ ~runs[id].dealReached /\ runs[id].turns = 2
          /\ IsNeutral(runs[id].buyer.score)

---------------------------------------------------------------------------
\* Roster entries and model identifiers (SpecRoster)

\* An entry without a ' 4.5' at its end.
StripSuffix(m) ==
    IF m # <<>> /\ m[Len(m)] = " 4.5" THEN SubSeq(m, 1, Len(m) - 1) ELSE m

\* The identifier the lookup table has for a key.
TableId(key) == (CHOOSE p \in MODELS : p[1] = key)[2]

\* The entry is mapped as the table says, or to itself.
MappedByTable(t, m) ==
    /\ m \in DOMAIN t.modelMap
    /\ t.modelMap[m] = (IF StripSuffix(m) \in OwnKeys
                        THEN TableId(StripSuffix(m)) ELSE m)

\* The participants are the distinct entries of the roster.
DuplicatesCollapse(t, roster) ==
    /\ Range(t.modelKeys) = Range(roster)
    /\ Len(t.modelKeys) = Cardinality(Range(roster))

\* The roster of the last start request.
Started == ev.kind = "start"
Requested == ev.roster

\* C39: runTournament maps every roster entry to a model identifier: an
\* entry found in the MODELS table (after removing a ' 4.5' suffix) maps to
\* the table's identifier, every other entry maps to itself unchanged, and
\* no error is raised; duplicate roster entries collapse to one participant.
C39_RosterResolved ==
    Started =>
        /\ T[ev.k].pc # "error"
        /\ \A n \in DOMAIN Requested : MappedByTable(T[ev.k], Requested[n])
        /\ DuplicatesCollapse(T[ev.k], Requested)

\* The entry has no ' 4.5' before its end and does not name a property that
\* MODELS inherits.
Plain(m) ==
    /\ \A n \in 1..(Len(m) - 1) : m[n] # " 4.5"
    /\ \A p \in Inherited : StripSuffix(m) # p[1]

\* C39 for such entries: this much holds of the code.
C39_PlainRosterResolved ==
    Started =>
        /\ T[ev.k].pc # "error"
        /\ \A n \in DOMAIN Requested :
              Plain(Requested[n]) => MappedByTable(T[ev.k], Requested[n])
        /\ DuplicatesCollapse(T[ev.k], Requested)

---------------------------------------------------------------------------
\* The first block of a text (SpecAgent)

\* How many times the token stands in s.
Count(s, tok) == Cardinality({n \in DOMAIN s : s[n] = tok})

\* The first top-level {...} block: from the first "{" to the "}" that
\* closes it; the empty sequence if there is none.
FirstBlock(s) ==
    LET opens == {n \in DOMAIN s : s[n] = "{"}
    IN  IF opens = {} THEN <<>>
        ELSE LET a == CHOOSE n \in opens : \A q \in opens : n <= q
                 ends == {n \in a..Len(s) :
                             Count(SubSeq(s, a, n), "{") = Count(SubSeq(s, a, n), "}")}
             IN  IF ends = {} THEN <<>>
                 ELSE SubSeq(s, a, CHOOSE n \in ends : \A q \in ends : n <= q)

\* What parsing the block gives: its fields, or the fallback reply if the
\* block is no JSON.
FieldsOf(block, text) ==
    IF JSONParse(block).ok THEN JSONParse(block).data ELSE Fallback(text)

\* The reply of the last call has these four fields.
ReplyIs(fields) ==
    /\ agent.reply.thought = fields.thought
    /\ agent.reply.message = fields.message
    /\ agent.reply.offer = fields.offer
    /\ agent.reply.deal = fields.deal

\* The last call returned for a text that is no JSON itself and has a first
\* block.
ParsedFromBlock ==
    /\ CallEnded /\ agent.reply.status = "returned"
    /\ ~JSONParse(agent.text).ok
    /\ FirstBlock(agent.text) # <<>>

\* C40: when the raw reply text is not itself a JSON object,
\* generateResponse parses the first top-level {...} block of the text and
\* returns its fields; a valid JSON object followed by further text with
\* braces yields the fields of that first object, not the fallback reply.
C40_FirstBlockParsed ==
    ParsedFromBlock => ReplyIs(FieldsOf(FirstBlock(agent.text), agent.text))

\* No closing brace stands after the first block.
NoLaterClose(text) ==
    LET a == CHOOSE n \in DOMAIN text :
                 text[n] = "{" /\ \A q \in 1..(n - 1) : text[q] # "{"
    IN  \A n \in DOMAIN text :
            text[n] = "}" => n < a + Len(FirstBlock(text))

\* C40 for texts with no closing brace after the first block: this much
\* holds of the code.
C40_LoneBlockParsed ==
    (ParsedFromBlock /\ NoLaterClose(agent.text))
    => ReplyIs(FieldsOf(FirstBlock(agent.text), agent.text))

\* What the code applies to every text with braces: the span from the first
\* "{" to the last "}".
C40_WidestSpanParsed ==
    (CallEnded /\ agent.reply.status = "returned" /\ JsonMatch(agent.text) # <<>>)
    => ReplyIs(FieldsOf(JsonMatch(agent.text), agent.text))

====
